---- MODULE Spec2Model ----
(***************************************************************************)
(* Elasticsearch storage adapter of LightRAG                               *)
(* (src/lightrag/kg/elasticsearch_impl.py).                                *)
(*                                                                         *)
(* Part 1: ElasticsearchConnectionManager (one shared, reference-counted   *)
(* connection), ensure_index_exists and the stores' initialize/finalize.   *)
(* The code runs on one asyncio event loop: a coroutine is only            *)
(* interleaved with others at an await that suspends, so every action      *)
(* below is the code between two suspension points.                        *)
(***************************************************************************)
EXTENDS Integers, Sequences, FiniteSets, TLC

\* ------------------------------------------------------------------ bounds
NumTasks == 2       \* concurrent coroutines
NumStores == 2      \* store instances
MaxConn == 2        \* connections built in one run (caps `constructed`)
MaxTime == 2        \* last second of the wall clock
MaxIds == 2         \* longest id list passed to get_by_ids / delete
MaxRecords == 3     \* most records in an index that is scanned
MaxPage == 2        \* largest page size of a scan (1000 in the code, scaled)
MaxStr == 2         \* longest workspace string given to a constructor
MaxBatch == 2       \* largest embedding_batch_num of a vector store
MaxTopK == 2        \* largest top_k of a query
MaxDocs == 24       \* most status documents of an index that is paged through

Tasks == 1..NumTasks
Stores == 1..NumStores
Conns == 1..MaxConn

\* `None` for a handle (cls._instance = None, es_client = None).
None == 0

VARIABLES
    es_url,        \* ELASTICSEARCH_URL / config.ini url: "" is unset or empty
    cloud_id,      \* ELASTICSEARCH_CLOUD_ID: "" is unset or empty
    instance,      \* cls._instance: None or the id of the cached connection
    ref_count,     \* cls._ref_count
    lock,          \* cls._lock: None when free, else the task holding it
    constructed,   \* number of AsyncElasticsearch objects built so far
    closeCount,    \* per connection: number of completed close() calls
    es_client,     \* per store: self.es_client
    initLock,      \* get_data_init_lock(): None when free, else its holder
    storageLock,   \* get_storage_lock(): None when free, else its holder
    indices,       \* names of the indices that exist in the backend
    mappings,      \* per index name: the index_type it was created for, or "none"
    pc,            \* per task: where its coroutine is suspended
    store,         \* per task: the store of its initialize/finalize (or None)
    held,          \* per task: the handle a direct get_client() returned to it
    arg,           \* per task: the client passed to the call it is in
    raised,        \* the exception the last finished call ended with, or "none"
    kind,          \* store class under study: "kv", "doc_status" or "vector"
    namespace,     \* self.namespace of that store
    idx,           \* the store's backend index: a set of [id, source] records
    now,           \* the wall clock, int(time.time())
    call,          \* the store operation that finished last, with its inputs
    ret,           \* what that operation returned
    lastWrite,     \* per id: payload and time of the last write the backend applied
    scan,          \* the full scan in progress: position, cursor, pages, result
    drop_result    \* what the last drop() returned

mgrVars == <<instance, ref_count, lock, constructed, closeCount>>
envVars == <<es_url, cloud_id>>
storeVars == <<es_client, initLock, storageLock, indices, mappings>>
taskVars == <<pc, store, held, arg, raised>>
connVars == <<envVars, mgrVars, storeVars, taskVars>>

dataVars == <<kind, namespace, idx, now, call, ret, lastWrite>>

extVars == <<scan, drop_result>>

vars == <<connVars, dataVars, extVars>>

\* ------------------------------------------------------- naming of indices
\* self._index_name of a store instance; stores 1 and 2 are bound to the
\* same (workspace, namespace).
IndexName(s) == IF s <= 2 THEN "ws-ns" ELSE "ws-other"

IndexNames == {IndexName(s) : s \in Stores}

\* The index_type a store instance passes to ensure_index_exists: the
\* stores that share an index name are of different classes.
IndexType(s) ==
    CASE s = 1 -> "kv"
      [] s = 2 -> "vector"
      [] OTHER -> "doc_status"

\* ---- variants of the manager's code used to test the properties below
\* the mutex does not exclude a second coroutine
LockFreeNoMutex == TRUE

\* only the endpoint URL is consulted
TargetConfiguredUrlOnly == es_url # ""

\* `cls._ref_count = 1` in place of `cls._ref_count += 1`
AcquireStepSetsOne ==
    /\ ~(instance = None /\ es_url = "" /\ cloud_id = "")
    /\ IF instance = None
         THEN /\ constructed < MaxConn
              /\ constructed' = constructed + 1
              /\ instance' = constructed + 1
         ELSE /\ instance' = instance
              /\ constructed' = constructed
    /\ ref_count' = 1
    /\ UNCHANGED <<lock, closeCount>>

\* the identity test `client is cls._instance` is left out
ReleaseMatchesAnyHandle(c) == c # None

\* `cls._instance = None` is left out after close()
CloseStepKeepsCache(t) ==
    /\ lock = t
    /\ closeCount' = [closeCount EXCEPT ![instance] = @ + 1]
    /\ instance' = instance
    /\ lock' = None
    /\ UNCHANGED <<ref_count, constructed>>

\* ----------------------------------------------------- connection manager
\* `if not es_url and not cloud_id` is false
TargetConfigured == es_url # "" \/ cloud_id # ""

\* get_client raises ValueError: nothing cached and no target configured
AcquireRaises == instance = None /\ ~TargetConfigured

\* asyncio.Lock: `async with cls._lock` proceeds only when the lock is free
LockFree == lock = None

\* Body of get_client when it does not raise.  There is no await inside the
\* `async with`, so the body runs in one step and the lock is free again
\* after it.  The value returned is instance'.
AcquireStep ==
    /\ ~AcquireRaises
    /\ IF instance = None
         THEN /\ constructed < MaxConn
              /\ constructed' = constructed + 1
              /\ instance' = constructed + 1
              /\ ref_count' = 0 + 1
         ELSE /\ instance' = instance
              /\ constructed' = constructed
              /\ ref_count' = ref_count + 1
    /\ UNCHANGED <<lock, closeCount>>

\* `client is not None and client is cls._instance`
ReleaseMatches(c) == c # None /\ c = instance

\* release_client up to its await: decrements, and when the count reaches
\* zero keeps the lock while close() is awaited (closing = TRUE).
ReleaseStep(t, c, closing) ==
    /\ UNCHANGED <<instance, constructed, closeCount>>
    /\ IF ReleaseMatches(c)
         THEN /\ ref_count' = ref_count - 1
              /\ closing = (ref_count - 1 = 0)
         ELSE /\ ref_count' = ref_count
              /\ closing = FALSE
    /\ lock' = IF closing THEN t ELSE None

\* variant: the mutex is still held when release_client returns
CloseStepKeepsLock(t) ==
    /\ lock = t
    /\ closeCount' = [closeCount EXCEPT ![instance] = @ + 1]
    /\ instance' = None
    /\ lock' = lock
    /\ UNCHANGED <<ref_count, constructed>>

\* release_client after `await cls._instance.close()` returned:
\* the connection is closed, the cache cleared, the lock released.
CloseStep(t) ==
    /\ lock = t
    /\ closeCount' = [closeCount EXCEPT ![instance] = @ + 1]
    /\ instance' = None
    /\ lock' = None
    /\ UNCHANGED <<ref_count, constructed>>

\* ------------------------------------------------------------ environment
\* The process environment is read at every construction; it may change
\* between calls.
SetEnv ==
    /\ \E u \in {"", "http://es:9200"}, c \in {"", "cloud"} :
         /\ <<u, c>> # <<es_url, cloud_id>>
         /\ es_url' = u
         /\ cloud_id' = c
    /\ UNCHANGED <<mgrVars, storeVars, taskVars>>

\* ------------------------------------------- direct callers of the manager
\* A caller that holds no handle calls get_client().
CallGetClient(t) ==
    /\ pc[t] = "idle"
    /\ held[t] = None
    /\ pc' = [pc EXCEPT ![t] = "get_client"]
    /\ UNCHANGED raised
    /\ UNCHANGED <<envVars, mgrVars, storeVars, store, held, arg>>

get_client(t) ==
    /\ pc[t] = "get_client"
    /\ LockFree
    /\ IF AcquireRaises
         THEN /\ UNCHANGED <<mgrVars, held>>
              /\ raised' = "ValueError"
         ELSE /\ AcquireStep
              /\ held' = [held EXCEPT ![t] = instance']
              /\ raised' = "none"
    /\ pc' = [pc EXCEPT ![t] = "idle"]
    /\ UNCHANGED <<envVars, storeVars, store, arg>>

\* The matching release: the caller passes the handle it was given.
CallReleaseClient(t) ==
    /\ pc[t] = "idle"
    /\ held[t] # None
    /\ pc' = [pc EXCEPT ![t] = "release_client"]
    /\ arg' = [arg EXCEPT ![t] = held[t]]
    /\ held' = [held EXCEPT ![t] = None]
    /\ UNCHANGED raised
    /\ UNCHANGED <<envVars, mgrVars, storeVars, store>>

release_client(t) ==
    /\ pc[t] = "release_client"
    /\ LockFree
    /\ \E closing \in BOOLEAN :
         /\ ReleaseStep(t, arg[t], closing)
         /\ pc' = [pc EXCEPT ![t] = IF closing THEN "close" ELSE "idle"]
         /\ raised' = IF closing THEN raised ELSE "none"
         /\ arg' = [arg EXCEPT ![t] = IF closing THEN @ ELSE None]
    /\ UNCHANGED <<envVars, storeVars, store, held>>

close(t) ==
    /\ pc[t] = "close"
    /\ CloseStep(t)
    /\ pc' = [pc EXCEPT ![t] = "idle"]
    /\ raised' = "none"
    /\ arg' = [arg EXCEPT ![t] = None]
    /\ UNCHANGED <<envVars, storeVars, store, held>>

\* A caller that releases a handle it does not own: None, a handle it
\* already gave back, the handle of a connection closed long ago.
CallReleaseAny(t, h) ==
    /\ pc[t] = "idle"
    /\ h # held[t]
    /\ pc' = [pc EXCEPT ![t] = "release_client"]
    /\ arg' = [arg EXCEPT ![t] = h]
    /\ UNCHANGED <<envVars, mgrVars, storeVars, store, held, raised>>

\* ------------------------------------------------------- index provisioning
\* A request sent over handle c can be answered only while c is open.
Usable(c) == c # None /\ closeCount[c] = 0

\* Outcome of `await es_client.indices.exists(index=index_name)` over c:
\* TRUE / FALSE, or "error" when the request raises (fault, timeout, closed
\* connection).
ExistsOutcomes(c, name) ==
    {"error"} \cup (IF Usable(c) THEN {IF name \in indices THEN "yes" ELSE "no"} ELSE {})

\* Outcome of `await es_client.indices.create(index=index_name, ...)` over c:
\* the backend refuses to create an index that exists.
CreateOutcomes(c, name) ==
    {"error"} \cup (IF Usable(c) /\ name \notin indices THEN {"created"} ELSE {})

\* ------------------------------------------------- stores: initialize
\* The task's call returns or raises: every lock it holds in an
\* `async with` is released, the coroutine is gone.
Finish(t, res) ==
    /\ pc' = [pc EXCEPT ![t] = "idle"]
    /\ store' = [store EXCEPT ![t] = None]
    /\ arg' = [arg EXCEPT ![t] = None]
    /\ raised' = res

\* variant: the init lock does not exclude a second initializer
InitLockFreeNoMutex == TRUE

\* `async with get_data_init_lock()` can be entered
InitLockFree == initLock = None

\* variant: initialize() asks for a handle whether or not it has one
CallInitializeAlwaysAcquires(t, s) ==
    /\ pc[t] = "idle"
    /\ InitLockFree
    /\ initLock' = t
    /\ store' = [store EXCEPT ![t] = s]
    /\ pc' = [pc EXCEPT ![t] = "init_get_client"]
    /\ arg' = [arg EXCEPT ![t] = es_client[s]]
    /\ UNCHANGED raised
    /\ UNCHANGED <<envVars, mgrVars, es_client, storageLock, indices, mappings, held>>

\* initialize(): enters `async with get_data_init_lock()` and tests
\* `self.es_client is None`.
CallInitialize(t, s) ==
    /\ pc[t] = "idle"
    /\ InitLockFree
    /\ initLock' = t
    /\ store' = [store EXCEPT ![t] = s]
    /\ pc' = [pc EXCEPT ![t] =
                 IF es_client[s] = None THEN "init_get_client" ELSE "init_exists"]
    /\ arg' = [arg EXCEPT ![t] = es_client[s]]
    /\ UNCHANGED raised
    /\ UNCHANGED <<envVars, mgrVars, es_client, storageLock, indices, mappings, held>>

\* `self.es_client = await ElasticsearchConnectionManager.get_client()`
init_get_client(t) ==
    /\ pc[t] = "init_get_client"
    /\ LockFree
    /\ IF AcquireRaises
         THEN /\ UNCHANGED <<mgrVars, es_client>>
              /\ initLock' = None
              /\ Finish(t, "ValueError")
         ELSE /\ AcquireStep
              /\ es_client' = [es_client EXCEPT ![store[t]] = instance']
              /\ arg' = [arg EXCEPT ![t] = instance']
              /\ pc' = [pc EXCEPT ![t] = "init_exists"]
              /\ UNCHANGED <<initLock, store, raised>>
    /\ UNCHANGED <<envVars, storageLock, indices, mappings, held>>

\* ensure_index_exists: `if await es_client.indices.exists(...): return`
init_exists(t) ==
    /\ pc[t] = "init_exists"
    /\ \E out \in ExistsOutcomes(arg[t], IndexName(store[t])) :
         CASE out = "error" -> initLock' = None /\ Finish(t, "BackendError")
           [] out = "yes"   -> initLock' = None /\ Finish(t, "none")
           [] out = "no"    -> /\ pc' = [pc EXCEPT ![t] = "init_create"]
                               /\ UNCHANGED <<initLock, store, arg, raised>>
    /\ UNCHANGED <<envVars, mgrVars, es_client, storageLock, indices, mappings, held>>

\* ensure_index_exists: `await es_client.indices.create(...)`
init_create(t) ==
    /\ pc[t] = "init_create"
    /\ \E out \in CreateOutcomes(arg[t], IndexName(store[t])) :
         IF out = "created"
           THEN /\ indices' = indices \cup {IndexName(store[t])}
                /\ mappings' = [mappings EXCEPT ![IndexName(store[t])] =
                                                   IndexType(store[t])]
                /\ Finish(t, "none")
           ELSE /\ UNCHANGED <<indices, mappings>>
                /\ Finish(t, "BackendError")
    /\ initLock' = None
    /\ UNCHANGED <<envVars, mgrVars, es_client, storageLock, held>>

\* --------------------------------------------------- stores: finalize
\* finalize(): enters `async with get_storage_lock()`; with no handle it
\* returns at once, else it calls release_client(self.es_client).
CallFinalize(t, s) ==
    /\ pc[t] = "idle"
    /\ storageLock = None
    /\ IF es_client[s] = None
         THEN /\ UNCHANGED <<storageLock, pc, store, arg>>
              /\ raised' = "none"
         ELSE /\ storageLock' = t
              /\ store' = [store EXCEPT ![t] = s]
              /\ arg' = [arg EXCEPT ![t] = es_client[s]]
              /\ pc' = [pc EXCEPT ![t] = "fin_release"]
              /\ UNCHANGED raised
    /\ UNCHANGED <<envVars, mgrVars, es_client, initLock, indices, mappings, held>>

\* release_client inside finalize, then `self.es_client = None`
fin_release(t) ==
    /\ pc[t] = "fin_release"
    /\ LockFree
    /\ \E closing \in BOOLEAN :
         /\ ReleaseStep(t, arg[t], closing)
         /\ IF closing
              THEN /\ pc' = [pc EXCEPT ![t] = "fin_close"]
                   /\ UNCHANGED <<es_client, storageLock, store, arg, raised>>
              ELSE /\ es_client' = [es_client EXCEPT ![store[t]] = None]
                   /\ storageLock' = None
                   /\ Finish(t, "none")
    /\ UNCHANGED <<envVars, initLock, indices, mappings, held>>

fin_close(t) ==
    /\ pc[t] = "fin_close"
    /\ CloseStep(t)
    /\ es_client' = [es_client EXCEPT ![store[t]] = None]
    /\ storageLock' = None
    /\ Finish(t, "none")
    /\ UNCHANGED <<envVars, initLock, indices, mappings, held>>

\* ------------------------------------------------------------------- init
ConnInit ==
    /\ es_url \in {"", "http://es:9200"}
    /\ cloud_id \in {"", "cloud"}
    /\ instance = None
    /\ ref_count = 0
    /\ lock = None
    /\ constructed = 0
    /\ closeCount = [c \in Conns |-> 0]
    /\ es_client = [s \in Stores |-> None]
    /\ initLock = None
    /\ storageLock = None
    /\ indices = {}
    /\ mappings = [n \in IndexNames |-> "none"]
    /\ pc = [t \in Tasks |-> "idle"]
    /\ store = [t \in Tasks |-> None]
    /\ held = [t \in Tasks |-> None]
    /\ arg = [t \in Tasks |-> None]
    /\ raised = "none"

\* ==========================================================================
\* Part 2: the data operations of the three stores against one index.
\* A run studies one store (kind, namespace are fixed at construction).
\* ==========================================================================
\* --------------------------------------------------------- Python dicts
\* A document is a function from field names to values.
Has(d, f) == f \in DOMAIN d

\* d[f] = v
Put(d, f, v) == [x \in DOMAIN d \cup {f} |-> IF x = f THEN v ELSE d[x]]

\* d.pop(f, None)
Pop(d, f) == [x \in DOMAIN d \ {f} |-> d[x]]

\* d.setdefault(f, v)
SetDefault(d, f, v) == IF Has(d, f) THEN d ELSE Put(d, f, v)

\* Python None where a document is expected
NoneDoc == [none |-> TRUE]

\* An exception left the operation
RaisedDoc == [raised |-> TRUE]

\* ---------------------------------------------------------------- inputs
Ids == {"a", "b"}

\* Lists of ids, repeats included, as passed to get_by_ids and delete.
IdLists == UNION {[1..n -> Ids] : n \in 0..MaxIds}

\* Payloads callers pass to ElasticsearchKVStorage.upsert: with or without
\* an optional field, with or without create_time.
KVFields == { [content |-> "x"],
              [content |-> "x", file_path |-> "f"],
              [content |-> "y"] }

KVPayloads ==
    KVFields \cup {Put(v, "create_time", c) : v \in KVFields, c \in 1..MaxTime}

\* A dict {id: payload}: insertion-ordered, keys distinct.  One-item dicts
\* carry any payload, two-item dicts the payloads of `plain`.
Dicts(payloads, plain) ==
    {<<>>}
      \cup {<<[k |-> k1, v |-> v1]>> : k1 \in Ids, v1 \in payloads}
      \cup {<<[k |-> k1, v |-> v1], [k |-> k2, v |-> v2]>> :
               <<k1, k2>> \in {p \in Ids \X Ids : p[1] # p[2]},
               <<v1, v2>> \in plain \X plain}

\* The dicts passed to ElasticsearchKVStorage.upsert.
KVDicts == Dicts(KVPayloads, KVFields)

\* ---------------------------------------------------------------- backend
\* The records of the index that carry this id.
Stored(id) == {r \in idx : r.id = id}

\* The _source of the document stored under id.
SourceOf(id) == (CHOOSE r \in Stored(id) : TRUE).source

\* variant: `index` keeps the fields of the old document that the new one
\* does not carry (a partial update)
IndexDocMerging(index, id, src) ==
    LET old == {r \in index : r.id = id}
        merged == IF old = {} THEN src
                  ELSE LET o == (CHOOSE r \in old : TRUE).source
                       IN [f \in DOMAIN o \cup DOMAIN src |->
                              IF f \in DOMAIN src THEN src[f] ELSE o[f]]
    IN {r \in index : r.id # id} \cup {[id |-> id, source |-> merged]}

\* Bulk action `index`: creates the document or replaces it as a whole.
IndexDoc(index, id, src) ==
    {r \in index : r.id # id} \cup {[id |-> id, source |-> src]}

\* variant: `delete` also removes the documents of the other ids
DeleteDocAndOthers(index, id) == {}

\* Bulk action `delete`.
DeleteDoc(index, id) == {r \in index : r.id # id}

\* variant: items after the first one the backend rejects are not sent
RECURSIVE BulkStopsAtRejected(_, _, _, _)
BulkStopsAtRejected(index, actions, applied, i) ==
    IF i > Len(actions) \/ i \notin applied THEN index
    ELSE LET a == actions[i]
             next == IF a.op = "index" THEN IndexDoc(index, a.id, a.source)
                     ELSE {r \in index : r.id # a.id}
         IN BulkStopsAtRejected(next, actions, applied, i + 1)

\* helpers.async_bulk over `actions`; the backend applies the items in
\* `applied` (positions) and rejects or never receives the others.
\* The items number lo to hi, in their order: the second half of them is
\* applied to what the first half leaves.
RECURSIVE BulkRange(_, _, _, _, _)
BulkRange(index, actions, applied, lo, hi) ==
    IF lo > hi THEN index
    ELSE IF lo = hi
      THEN IF lo \notin applied THEN index
           ELSE IF actions[lo].op = "index"
             THEN IndexDoc(index, actions[lo].id, actions[lo].source)
           ELSE DeleteDoc(index, actions[lo].id)
    ELSE UNION { BulkRange(half, actions, applied, (lo + hi) \div 2 + 1, hi) :
                    half \in {BulkRange(index, actions, applied, lo, (lo + hi) \div 2)} }

BulkFrom(index, actions, applied, i) ==
    BulkRange(index, actions, applied, i, Len(actions))

Bulk(index, actions, applied) == BulkFrom(index, actions, applied, 1)

\* helpers.async_bulk sends the actions in chunks of chunk_size (its
\* default, taken by every call of the adapter).
chunk_size == 500

ChunkOf(i) == (i - 1) \div chunk_size

\* The positions helpers.async_bulk gets applied out of n actions when the
\* backend rejects those in `rejected`.  With raise_on_error (the default)
\* the helper raises after the first chunk that has a rejected item and the
\* later chunks are never sent; with raise_on_error=False every chunk is.
AsyncBulkApplied(n, rejected, raise_on_error) ==
    LET chunks == {ChunkOf(i) : i \in rejected}
        last == IF raise_on_error /\ rejected # {}
                  THEN CHOOSE c \in chunks : \A d \in chunks : c <= d
                  ELSE ChunkOf(n)
    IN {i \in 1..n : ChunkOf(i) <= last} \ rejected

\* mget: one entry per requested id, in request order.
Mget(ids) ==
    [i \in 1..Len(ids) |->
        IF Stored(ids[i]) # {}
          THEN [id |-> ids[i], found |-> TRUE, source |-> SourceOf(ids[i])]
          ELSE [id |-> ids[i], found |-> FALSE]]

\* ------------------------------------------------------------------ clock
\* The caller runs one operation at a time: `call` and `ret` show the
\* operation that just finished until the caller goes on.
Ready == call.op = "none"

Return ==
    /\ ~Ready
    /\ call' = [op |-> "none"]
    /\ ret' = NoneDoc
    /\ UNCHANGED <<kind, namespace, idx, now, lastWrite>>

Tick ==
    /\ Ready
    /\ now < MaxTime
    /\ now' = now + 1
    /\ UNCHANGED <<kind, namespace, idx, call, ret, lastWrite>>

\* What the backend last applied for each id of a bulk call.
Written(data, applied, t) ==
    [k \in Ids |->
        IF \E i \in applied : data[i].k = k
          THEN [v |-> data[CHOOSE i \in applied : data[i].k = k].v, at |-> t]
          ELSE lastWrite[k]]

\* ------------------------------------------------ ElasticsearchKVStorage
\* `self.namespace.endswith("text_chunks")`
EndsWithTextChunks(ns) == ns \in {"text_chunks"}

\* variant: create_time is stamped whether or not the payload carries it
KVDocAlwaysStamps(v, t) ==
    LET v1 == IF EndsWithTextChunks(namespace) /\ ~Has(v, "llm_cache_list")
                THEN Put(v, "llm_cache_list", "[]")
                ELSE v
    IN Put(Put(v1, "update_time", t), "create_time", t)

\* The document upsert() builds from one payload at current_time t.
KVDoc(v, t) ==
    LET v1 == IF EndsWithTextChunks(namespace) /\ ~Has(v, "llm_cache_list")
                THEN Put(v, "llm_cache_list", "[]")
                ELSE v
        doc == Put(v1, "update_time", t)
    IN IF ~Has(doc, "create_time") THEN Put(doc, "create_time", t) ELSE doc

\* The caller writes id again with the fields it last wrote and hands back
\* the create_time of the stored record.
Rewrites(id, v) ==
    /\ Stored(id) # {}
    /\ lastWrite[id] # NoneDoc
    /\ Has(v, "create_time")
    /\ v["create_time"] = SourceOf(id)["create_time"]
    /\ Pop(v, "create_time") = Pop(lastWrite[id].v, "create_time")

kv_upsert(data, applied) ==
    /\ Ready
    /\ kind = "kv"
    /\ LET actions == [i \in 1..Len(data) |->
                          [op |-> "index", id |-> data[i].k,
                           source |-> KVDoc(data[i].v, now)]]
       IN idx' = Bulk(idx, actions, applied)
    /\ lastWrite' = Written(data, applied, now)
    /\ call' = [op |-> "upsert", applied |-> {data[i].k : i \in applied},
                ids |-> {data[i].k : i \in DOMAIN data},
                again |-> {data[i].k : i \in {j \in applied :
                                                Rewrites(data[j].k, data[j].v)}}]
    /\ ret' = NoneDoc
    /\ UNCHANGED <<kind, namespace, now>>

kv_delete(ids, applied) ==
    /\ Ready
    /\ kind = "kv"
    /\ LET actions == [i \in 1..Len(ids) |-> [op |-> "delete", id |-> ids[i]]]
       IN idx' = Bulk(idx, actions, applied)
    /\ lastWrite' = [k \in Ids |->
                        IF \E i \in applied : ids[i] = k THEN NoneDoc
                        ELSE lastWrite[k]]
    /\ call' = [op |-> "delete", applied |-> {ids[i] : i \in applied},
                ids |-> {ids[i] : i \in DOMAIN ids}]
    /\ ret' = NoneDoc
    /\ UNCHANGED <<kind, namespace, now>>

\* get_by_id: NotFoundError gives None, any other exception leaves the call.
KVGetById(id, fault) ==
    IF fault THEN RaisedDoc
    ELSE IF Stored(id) = {} THEN NoneDoc
    ELSE SetDefault(SetDefault(SourceOf(id), "create_time", 0), "update_time", 0)

kv_get_by_id(id, fault) ==
    /\ Ready
    /\ kind = "kv"
    /\ call' = [op |-> "get_by_id", id |-> id, fault |-> fault]
    /\ ret' = KVGetById(id, fault)
    /\ UNCHANGED <<kind, namespace, idx, now, lastWrite>>

\* variant: the found documents only, in the order of the response
KVGetByIdsFoundOnly(ids, fault) ==
    IF ids = <<>> \/ fault THEN <<>>
    ELSE LET found == SelectSeq(Mget(ids), LAMBDA d : d.found)
         IN [i \in 1..Len(found) |->
                SetDefault(SetDefault(found[i].source, "create_time", 0),
                           "update_time", 0)]

\* get_by_ids: a map of the found documents, read in the order of `ids`.
KVGetByIds(ids, fault) ==
    IF ids = <<>> THEN <<>>
    ELSE IF fault THEN [i \in 1..Len(ids) |-> NoneDoc]
    ELSE LET docs == Mget(ids)
             found == {i \in 1..Len(docs) : docs[i].found}
             doc_map == [k \in {docs[i].id : i \in found} |->
                            LET src == docs[CHOOSE i \in found : docs[i].id = k].source
                            IN SetDefault(SetDefault(src, "create_time", 0),
                                          "update_time", 0)]
         IN [i \in 1..Len(ids) |->
                IF ids[i] \in DOMAIN doc_map THEN doc_map[ids[i]] ELSE NoneDoc]

kv_get_by_ids(ids, fault) ==
    /\ Ready
    /\ kind = "kv"
    /\ call' = [op |-> "get_by_ids", ids |-> ids, fault |-> fault]
    /\ ret' = KVGetByIds(ids, fault)
    /\ UNCHANGED <<kind, namespace, idx, now, lastWrite>>

\* list(keys): the keys in some order
ListOf(keys) ==
    CHOOSE l \in [1..Cardinality(keys) -> keys] : {l[i] : i \in DOMAIN l} = keys

\* variant: the keys that are stored
KVFilterKeysStored(keys, fault) ==
    {k \in keys : ~fault /\ Stored(k) # {}}

\* filter_keys: the keys mget does not find; all of them when mget fails.
KVFilterKeys(keys, fault) ==
    IF keys = {} THEN {}
    ELSE IF fault THEN keys
    ELSE LET docs == Mget(ListOf(keys))
             existing_ids == {docs[i].id : i \in {j \in DOMAIN docs : docs[j].found}}
         IN keys \ existing_ids

kv_filter_keys(keys, fault) ==
    /\ Ready
    /\ kind = "kv"
    /\ call' = [op |-> "filter_keys", keys |-> keys, fault |-> fault]
    /\ ret' = [keys |-> KVFilterKeys(keys, fault)]
    /\ UNCHANGED <<kind, namespace, idx, now, lastWrite>>

\* Sets of positions of a list.
Positions(seq) == SUBSET (1..Len(seq))

NextKV ==
    \/ \E data \in KVDicts : \E applied \in Positions(data) :
           kv_upsert(data, applied)
    \/ \E ids \in IdLists : \E applied \in Positions(ids) : kv_delete(ids, applied)
    \/ \E id \in Ids, fault \in BOOLEAN : kv_get_by_id(id, fault)
    \/ \E ids \in IdLists, fault \in BOOLEAN : kv_get_by_ids(ids, fault)
    \/ \E keys \in SUBSET Ids, fault \in BOOLEAN : kv_filter_keys(keys, fault)

\* ----------------------------------------- ElasticsearchDocStatusStorage
\* Python None as the value of a field
PyNone == "<None>"

\* `not x` for a string or None
Falsy(x) == x \in {"", PyNone}

\* datetime.now(timezone.utc).isoformat() at second t
IsoTable ==
    << "2026-01-01T00:00:01+00:00", "2026-01-01T00:00:02+00:00",
       "2026-01-01T00:00:03+00:00", "2026-01-01T00:00:04+00:00",
       "2026-01-01T00:00:05+00:00" >>

IsoFormat(t) == IsoTable[t]

\* DocStatus members and their .value; any other value is a plain string.
DocStatusEnum ==
    [x \in {"DocStatus.PENDING", "DocStatus.PROCESSING",
            "DocStatus.PROCESSED", "DocStatus.FAILED"} |->
        CASE x = "DocStatus.PENDING" -> "pending"
          [] x = "DocStatus.PROCESSING" -> "processing"
          [] x = "DocStatus.PROCESSED" -> "processed"
          [] x = "DocStatus.FAILED" -> "failed"]

\* `if isinstance(status, DocStatus): data["status"] = status.value`
StatusToValue(d) ==
    IF Has(d, "status") /\ d["status"] \in DOMAIN DocStatusEnum
      THEN Put(d, "status", DocStatusEnum[d["status"]])
      ELSE d

\* `if f not in data or data[f] is None: data[f] = v`
FillNone(d, f, v) == IF ~Has(d, f) \/ d[f] = PyNone THEN Put(d, f, v) ELSE d

\* `if f not in data or not data[f]: data[f] = v`
FillFalsy(d, f, v) == IF ~Has(d, f) \/ Falsy(d[f]) THEN Put(d, f, v) ELSE d

\* _normalize_doc_status_input at second t
NormalizeDocStatusInput(value, t) ==
    LET d1 == StatusToValue(Pop(value, "content"))
        d2 == FillNone(d1, "chunks_list", "[]")
        d3 == FillNone(d2, "metadata", "{}")
        d4 == SetDefault(d3, "error_msg", PyNone)
        d5 == SetDefault(d4, "content_summary", "")
        d6 == SetDefault(d5, "content_length", 0)
        d7 == FillFalsy(d6, "file_path", "no-file-path")
        d8 == FillFalsy(d7, "created_at", IsoFormat(t))
    IN FillFalsy(d8, "updated_at", d8["created_at"])

\* variant: the legacy value always replaces error_msg
MigrateErrorClobbers(d) ==
    IF Has(d, "error") THEN Pop(Put(d, "error_msg", d["error"]), "error") ELSE d

\* Backward compatibility: migrate the legacy 'error' field
MigrateError(d) ==
    IF Has(d, "error")
      THEN IF ~Has(d, "error_msg") \/ Falsy(d["error_msg"])
             THEN Pop(Put(d, "error_msg", d["error"]), "error")
             ELSE Pop(d, "error")
      ELSE d

\* _prepare_doc_status_data at second t
PrepareDocStatusData(doc, t) ==
    LET d0 == Pop(doc, "_id")
        d1 == IF ~Has(d0, "file_path") THEN Put(d0, "file_path", "no-file-path") ELSE d0
        d2 == SetDefault(d1, "metadata", "{}")
        d3 == SetDefault(d2, "error_msg", PyNone)
        d4 == FillNone(d3, "chunks_list", "[]")
        d5 == SetDefault(d4, "content_summary", "")
        d6 == SetDefault(d5, "content_length", 0)
        d7 == SetDefault(d6, "created_at", IsoFormat(t))
        d8 == SetDefault(d7, "updated_at", d7["created_at"])
        d9 == StatusToValue(d8)
        d10 == Pop(Pop(Pop(Pop(d9, "create_time"), "update_time"), "messages"),
                   "return_message")
    IN MigrateError(d10)

\* The fields of DocProcessingStatus.
StatusSchema ==
    {"file_path", "status", "content_summary", "content_length", "track_id",
     "chunks_count", "chunks_list", "metadata", "error_msg", "created_at",
     "updated_at", "accreditation_level", "service"}

\* Payloads callers pass to ElasticsearchDocStatusStorage.upsert.
DocStatusPayloads ==
    { [status |-> "DocStatus.PENDING", file_path |-> "f1", content |-> "raw text"],
      [status |-> "failed", error |-> "boom"],
      [status |-> "processed", file_path |-> "f2", error_msg |-> "late",
       error |-> "early", created_at |-> IsoTable[1], chunks_list |-> PyNone],
      [status |-> "archived", error_msg |-> "", error |-> "old"] }

DocStatusDicts == Dicts(DocStatusPayloads, DocStatusPayloads)

\* upsert: helpers.async_bulk with its defaults, an exception is logged.
ds_upsert(data, rejected) ==
    /\ Ready
    /\ kind = "doc_status"
    /\ \E applied \in {AsyncBulkApplied(Len(data), rejected, TRUE)} :
          /\ LET actions == [i \in 1..Len(data) |->
                                [op |-> "index", id |-> data[i].k,
                                 source |-> NormalizeDocStatusInput(data[i].v, now)]]
             IN idx' = Bulk(idx, actions, applied)
          /\ lastWrite' = Written(data, applied, now)
          /\ call' = [op |-> "upsert", applied |-> {data[i].k : i \in applied},
                      rejected |-> {data[i].k : i \in rejected},
                      keys |-> {data[i].k : i \in DOMAIN data}]
    /\ ret' = NoneDoc
    /\ UNCHANGED <<kind, namespace, now>>

ds_delete(ids, applied) ==
    /\ Ready
    /\ kind = "doc_status"
    /\ LET actions == [i \in 1..Len(ids) |-> [op |-> "delete", id |-> ids[i]]]
       IN idx' = Bulk(idx, actions, applied)
    /\ lastWrite' = [k \in Ids |->
                        IF \E i \in applied : ids[i] = k THEN NoneDoc
                        ELSE lastWrite[k]]
    /\ call' = [op |-> "delete", applied |-> {ids[i] : i \in applied},
                ids |-> {ids[i] : i \in DOMAIN ids}]
    /\ ret' = NoneDoc
    /\ UNCHANGED <<kind, namespace, now>>

\* get_by_ids: one entry per entry of the mget response, in its order.
DSGetByIds(ids, fault, t) ==
    IF ids = <<>> THEN <<>>
    ELSE IF fault THEN [i \in 1..Len(ids) |-> NoneDoc]
    ELSE LET docs == Mget(ids)
         IN [i \in 1..Len(docs) |->
                IF docs[i].found THEN PrepareDocStatusData(docs[i].source, t)
                ELSE NoneDoc]

ds_get_by_ids(ids, fault) ==
    /\ Ready
    /\ kind = "doc_status"
    /\ call' = [op |-> "get_by_ids", ids |-> ids, fault |-> fault]
    /\ ret' = DSGetByIds(ids, fault, now)
    /\ UNCHANGED <<kind, namespace, idx, now, lastWrite>>

\* filter_keys of the status store: the same computation as the KV store's.
DSFilterKeys(keys, fault) ==
    IF keys = {} THEN {}
    ELSE IF fault THEN keys
    ELSE LET docs == Mget(ListOf(keys))
             existing_ids == {docs[i].id : i \in {j \in DOMAIN docs : docs[j].found}}
         IN keys \ existing_ids

ds_filter_keys(keys, fault) ==
    /\ Ready
    /\ kind = "doc_status"
    /\ call' = [op |-> "filter_keys", keys |-> keys, fault |-> fault]
    /\ ret' = [keys |-> DSFilterKeys(keys, fault)]
    /\ UNCHANGED <<kind, namespace, idx, now, lastWrite>>

\* get_by_id: every exception is caught and gives None.
DSGetById(id, fault, t) ==
    IF fault \/ Stored(id) = {} THEN NoneDoc
    ELSE PrepareDocStatusData(SourceOf(id), t)

ds_get_by_id(id, fault) ==
    /\ Ready
    /\ kind = "doc_status"
    /\ call' = [op |-> "get_by_id", id |-> id, fault |-> fault]
    /\ ret' = DSGetById(id, fault, now)
    /\ UNCHANGED <<kind, namespace, idx, now, lastWrite>>

\* get_doc_by_file_path: the first hit of a term query on file_path (`hit`
\* when several documents match); None for no hit and when the search fails.
ds_get_doc_by_file_path(file_path, fault, hit) ==
    /\ Ready
    /\ kind = "doc_status"
    /\ LET hits == {r \in idx : /\ Has(r.source, "file_path")
                                /\ r.source["file_path"] = file_path}
       IN /\ IF fault \/ hits = {} THEN hit = NoneDoc ELSE hit \in hits
          /\ ret' = IF hit = NoneDoc THEN NoneDoc
                    ELSE PrepareDocStatusData(hit.source, now)
    /\ call' = [op |-> "get_doc_by_file_path", file_path |-> file_path,
                fault |-> fault]
    /\ UNCHANGED <<kind, namespace, idx, now, lastWrite>>

\* {status.value for status in DocStatus}
KnownStatuses == {DocStatusEnum[x] : x \in DOMAIN DocStatusEnum}

\* Number of stored documents whose status field is k.
StatusCount(k) ==
    Cardinality({r \in idx : Has(r.source, "status") /\ r.source["status"] = k})

\* The buckets of a terms aggregation on `status` with the given size: one
\* per value of the field, the `size` most frequent values when there are
\* more.
TermsBuckets(size) ==
    LET keys == {r.source["status"] : r \in {x \in idx : Has(x.source, "status")}}
        top == IF Cardinality(keys) <= size THEN keys
               ELSE CHOOSE T \in SUBSET keys :
                        /\ Cardinality(T) = size
                        /\ \A a \in T, b \in keys \ T :
                               StatusCount(a) >= StatusCount(b)
    IN [k \in top |-> StatusCount(k)]

\* sum(counts.values())
RECURSIVE SumValues(_, _)
SumValues(f, keys) ==
    IF keys = {} THEN 0
    ELSE LET k == CHOOSE x \in keys : TRUE
         IN f[k] + SumValues(f, keys \ {k})

\* variant: only the statuses the aggregation reports
GetStatusCountsBucketsOnly(fault) ==
    LET buckets == TermsBuckets(Cardinality(KnownStatuses))
    IN [k \in (IF fault THEN {} ELSE DOMAIN buckets \cap KnownStatuses) |->
           buckets[k]]

\* get_status_counts: zero for every member of DocStatus, then the
\* doc_count of each bucket whose key is a member.
GetStatusCounts(fault) ==
    LET buckets == TermsBuckets(Cardinality(KnownStatuses))
    IN [k \in KnownStatuses |->
           IF ~fault /\ k \in DOMAIN buckets THEN buckets[k] ELSE 0]

\* get_all_status_counts: the same with the entry "all"
GetAllStatusCounts(fault) ==
    LET counts == GetStatusCounts(fault)
    IN [k \in DOMAIN counts \cup {"all"} |->
           IF k = "all" THEN SumValues(counts, DOMAIN counts) ELSE counts[k]]

ds_get_all_status_counts(fault) ==
    /\ Ready
    /\ kind = "doc_status"
    /\ call' = [op |-> "get_all_status_counts", fault |-> fault]
    /\ ret' = GetAllStatusCounts(fault)
    /\ UNCHANGED <<kind, namespace, idx, now, lastWrite>>

NextDocStatus ==
    \/ \E data \in DocStatusDicts : \E rejected \in Positions(data) :
           ds_upsert(data, rejected)
    \/ \E ids \in IdLists : \E applied \in Positions(ids) : ds_delete(ids, applied)
    \/ \E id \in Ids, fault \in BOOLEAN : ds_get_by_id(id, fault)
    \/ \E ids \in IdLists, fault \in BOOLEAN : ds_get_by_ids(ids, fault)
    \/ \E keys \in SUBSET Ids, fault \in BOOLEAN : ds_filter_keys(keys, fault)
    \/ \E fault \in BOOLEAN : ds_get_all_status_counts(fault)

\* -------------------------------------------- ElasticsearchVectorStorage
\* self.meta_fields, given at construction
meta_fields == {"entity_name", "accreditation_level"}

\* self._max_batch_size = global_config["embedding_batch_num"]
BatchSizes == 1..MaxBatch

\* The embedding function: one vector per content string.
Embedding(content) == <<"embedding of", content>>

\* embedding_func(batch): one row per string of the batch
EmbeddingFunc(batch) == [i \in 1..Len(batch) |-> Embedding(batch[i])]

\* contents[i : i + size] for i in range(0, len(contents), size)
Batches(contents, size) ==
    [b \in 1..((Len(contents) + size - 1) \div size) |->
        SubSeq(contents, (b - 1) * size + 1,
               IF b * size < Len(contents) THEN b * size ELSE Len(contents))]

\* np.concatenate(embeddings_list)
RECURSIVE Concatenate(_)
Concatenate(lists) ==
    IF lists = <<>> THEN <<>> ELSE Head(lists) \o Concatenate(Tail(lists))

\* The orders in which n concurrently running computations can finish.
Completions(n) ==
    {o \in [1..n -> 1..n] : \A i, j \in 1..n : i # j => o[i] # o[j]}

\* variant: the results in the order in which the computations finish
GatherAsCompleted(results, completion) ==
    [k \in 1..Len(results) |-> results[completion[k]]]

\* asyncio.gather(*embedding_tasks): the computations finish in the order
\* `completion`; each result is put at the position of its task.
Gather(results, completion) ==
    LET arrivals == [k \in 1..Len(results) |->
                        [task |-> completion[k], value |-> results[completion[k]]]]
    IN [i \in 1..Len(results) |->
           arrivals[CHOOSE k \in 1..Len(results) : arrivals[k].task = i].value]

\* The document upsert() builds for item number i of `data` at second t.
VectorDoc(v, embedding, t) ==
    LET kept == [f \in {x \in DOMAIN v : x \in meta_fields \/ x = "content"} |-> v[f]]
    IN Put(Put(Put(kept, "embedding", embedding), "create_time", t),
           "update_time", t)

\* Payloads callers pass to ElasticsearchVectorStorage.upsert.
VectorPayloads ==
    { [content |-> "x", entity_name |-> "E1"],
      [content |-> "y", entity_name |-> "E2", note |-> "n"],
      [content |-> "y"] }

VectorDicts == Dicts(VectorPayloads, VectorPayloads)

\* upsert: the embedding computation is awaited first and is not guarded;
\* the bulk write is.
vec_upsert(data, rejected, embed_fault, size, completion) ==
    /\ Ready
    /\ kind = "vector"
    /\ IF data = <<>> \/ embed_fault
         THEN /\ UNCHANGED <<idx, lastWrite>>
              /\ rejected = {}
              /\ size = 1
              /\ completion = <<>>
              /\ ret' = IF data # <<>> THEN RaisedDoc ELSE NoneDoc
              /\ call' = [op |-> "upsert", applied |-> {}, embedded |-> FALSE]
         ELSE LET contents == [i \in 1..Len(data) |-> data[i].v["content"]]
                  batches == Batches(contents, size)
                  embeddings_list ==
                      Gather([b \in 1..Len(batches) |-> EmbeddingFunc(batches[b])],
                             completion)
              IN /\ completion \in Completions(Len(batches))
                 /\ \E embeddings \in {Concatenate(embeddings_list)},
                       applied \in {AsyncBulkApplied(Len(data), rejected, TRUE)} :
                     LET actions == [i \in 1..Len(data) |->
                                        [op |-> "index", id |-> data[i].k,
                                         source |-> VectorDoc(data[i].v, embeddings[i], now)]]
                     IN /\ idx' = Bulk(idx, actions, applied)
                        /\ lastWrite' = Written(data, applied, now)
                        /\ ret' = NoneDoc
                        /\ call' = [op |-> "upsert",
                                    applied |-> {data[i].k : i \in applied},
                                    rejected |-> {data[i].k : i \in rejected},
                                    keys |-> {data[i].k : i \in DOMAIN data},
                                    embedded |-> TRUE,
                                    records |-> Len(data),
                                    size |-> size,
                                    batch_lens |-> [b \in 1..Len(batches) |-> Len(batches[b])],
                                    in_order |-> \A k \in 1..Len(batches) : completion[k] = k]
    /\ UNCHANGED <<kind, namespace, now>>

vec_delete(ids, applied) ==
    /\ Ready
    /\ kind = "vector"
    /\ LET actions == [i \in 1..Len(ids) |-> [op |-> "delete", id |-> ids[i]]]
       IN idx' = Bulk(idx, actions, applied)
    /\ lastWrite' = [k \in Ids |->
                        IF \E i \in applied : ids[i] = k THEN NoneDoc
                        ELSE lastWrite[k]]
    /\ call' = [op |-> "delete", applied |-> {ids[i] : i \in applied},
                ids |-> {ids[i] : i \in DOMAIN ids}]
    /\ ret' = NoneDoc
    /\ UNCHANGED <<kind, namespace, now>>

\* get_by_ids: the found documents of the mget response, each with its id.
VectorGetByIds(ids, fault) ==
    IF ids = <<>> \/ fault THEN <<>>
    ELSE LET docs == Mget(ids)
             found == SelectSeq(docs, LAMBDA d : d.found)
         IN [i \in 1..Len(found) |-> Put(found[i].source, "id", found[i].id)]

vec_get_by_ids(ids, fault) ==
    /\ Ready
    /\ kind = "vector"
    /\ call' = [op |-> "get_by_ids", ids |-> ids, fault |-> fault]
    /\ ret' = VectorGetByIds(ids, fault)
    /\ UNCHANGED <<kind, namespace, idx, now, lastWrite>>

\* variant: the exception of mget leaves the call
GetVectorsByIdsRaises(ids, fault) ==
    IF fault THEN RaisedDoc ELSE [vectors |-> <<>>]

\* get_vectors_by_ids: the embedding of every found document that has one,
\* by id; {} for no ids and when mget fails.
GetVectorsByIds(ids, fault) ==
    IF ids = <<>> \/ fault THEN [vectors |-> <<>>]
    ELSE LET docs == Mget(ids)
             found == {i \in 1..Len(docs) :
                          docs[i].found /\ Has(docs[i].source, "embedding")}
         IN [vectors |->
                [k \in {docs[i].id : i \in found} |->
                    docs[CHOOSE i \in found : docs[i].id = k].source["embedding"]]]

vec_get_vectors_by_ids(ids, fault) ==
    /\ Ready
    /\ kind = "vector"
    /\ call' = [op |-> "get_vectors_by_ids", ids |-> ids, fault |-> fault]
    /\ ret' = GetVectorsByIds(ids, fault)
    /\ UNCHANGED <<kind, namespace, idx, now, lastWrite>>

\* The properties of the mappings ensure_index_exists creates a vector
\* index with; none of them has a sub-field.
VectorProperties ==
    {"content", "embedding", "entity_name", "source_id", "description",
     "keywords", "weight", "rank", "full_doc_id", "chunk_order_index",
     "file_path", "accreditation_level", "service", "create_time",
     "update_time"}

\* {"term": {path: value}} on a record of the vector index.  A field of the
\* mappings is matched under its own name; a string field that is not in
\* the mappings is mapped dynamically and has the sub-field ".keyword"; any
\* other path names no field and matches nothing.
TermMatches(r, path, value) ==
    LET field == CASE path = "entity_name.keyword" -> "entity_name"
                   [] path = "src_id.keyword" -> "src_id"
                   [] path = "tgt_id.keyword" -> "tgt_id"
                   [] OTHER -> path
        known == IF field = path THEN field \in VectorProperties
                 ELSE field \notin VectorProperties
    IN known /\ Has(r.source, field) /\ r.source[field] = value

\* delete_entity: delete_by_query with a term query on
\* "entity_name.keyword"; an exception is logged.
vec_delete_entity(entity_name, fault) ==
    /\ Ready
    /\ kind = "vector"
    /\ LET matched == {r \in idx : TermMatches(r, "entity_name.keyword", entity_name)}
           deleted == IF fault THEN {} ELSE matched
       IN /\ idx' = idx \ deleted
          /\ lastWrite' = [k \in Ids |->
                              IF \E r \in deleted : r.id = k THEN NoneDoc
                              ELSE lastWrite[k]]
    /\ call' = [op |-> "delete_entity", entity_name |-> entity_name,
                fault |-> fault]
    /\ ret' = NoneDoc
    /\ UNCHANGED <<kind, namespace, now>>

NextVector ==
    \/ \E data \in VectorDicts : \E rejected \in Positions(data) :
           \E embed_fault \in BOOLEAN, size \in BatchSizes :
                    \E completion \in UNION {Completions(n) : n \in 0..Len(data)} :
                        vec_upsert(data, rejected, embed_fault, size, completion)
    \/ \E ids \in IdLists : \E applied \in Positions(ids) : vec_delete(ids, applied)
    \/ \E ids \in IdLists, fault \in BOOLEAN : vec_get_by_ids(ids, fault)
    \/ \E entity_name \in {"E1", "E2"}, fault \in BOOLEAN :
           vec_delete_entity(entity_name, fault)

\* ----------------------------------------------------------- index names
\* Strings are sequences of characters.  ELASTICSEARCH_WORKSPACE and the
\* constructor's workspace argument are [set |-> FALSE] when absent (unset,
\* None) and [set |-> TRUE, value |-> string] otherwise.
Chars == {"a", "B", "_", " "}

Strs == UNION {[1..n -> Chars] : n \in 0..MaxStr}

Optionals == {[set |-> FALSE]} \cup {[set |-> TRUE, value |-> v] : v \in Strs}

\* Namespaces callers construct stores with.
Namespaces == { <<"n">>, <<"N", "_", "s">>, <<"t", "_", "_", "c">> }

\* One character of str.lower()
LowerChar(c) ==
    CASE c = "A" -> "a"
      [] c = "B" -> "b"
      [] c = "N" -> "n"
      [] c = "D" -> "d"
      [] c = "E" -> "e"
      [] c = "S" -> "s"
      [] c = "C" -> "c"
      [] OTHER -> c

\* str.lower()
Lower(str) == [i \in DOMAIN str |-> LowerChar(str[i])]

\* str.replace(old, new) for one-character old and new
Replace(str, old, new) == [i \in DOMAIN str |-> IF str[i] = old THEN new ELSE str[i]]

\* str.lstrip(), str.rstrip() and str.strip()
RECURSIVE LStrip(_)
LStrip(str) ==
    IF str # <<>> /\ Head(str) = " " THEN LStrip(Tail(str)) ELSE str

RECURSIVE RStrip(_)
RStrip(str) ==
    IF str # <<>> /\ str[Len(str)] = " "
      THEN RStrip(SubSeq(str, 1, Len(str) - 1))
      ELSE str

\* variant: the override is used as it is set
StripNothing(str) == str

Strip(str) == RStrip(LStrip(str))

\* `workspace=workspace or ""` in __init__
WorkspaceOrEmpty(workspace) ==
    IF workspace.set /\ workspace.value # <<>> THEN workspace.value ELSE <<>>

\* __post_init__ up to `self._index_name = ...`; the three store classes
\* have the same statements.
PostInit(es_workspace, workspace, ns) ==
    LET effective_workspace ==
            IF es_workspace.set /\ es_workspace.value # <<>>
                 /\ Strip(es_workspace.value) # <<>>
              THEN Strip(es_workspace.value)
              ELSE WorkspaceOrEmpty(workspace)
        final_namespace ==
            IF effective_workspace # <<>>
              THEN effective_workspace \o <<"_">> \o ns
              ELSE ns
    IN [final_namespace |-> final_namespace,
        workspace |-> IF effective_workspace # <<>> THEN effective_workspace
                      ELSE <<"_">>,
        index_name |-> Replace(Lower(final_namespace), "_", "-")]

kv_post_init(es_workspace, workspace, ns) ==
    /\ Ready
    /\ kind = "kv"
    /\ call' = [op |-> "__post_init__", es_workspace |-> es_workspace,
                workspace |-> workspace, namespace |-> ns]
    /\ ret' = PostInit(es_workspace, workspace, ns)
    /\ UNCHANGED <<kind, namespace, idx, now, lastWrite>>

ds_post_init(es_workspace, workspace, ns) ==
    /\ Ready
    /\ kind = "doc_status"
    /\ call' = [op |-> "__post_init__", es_workspace |-> es_workspace,
                workspace |-> workspace, namespace |-> ns]
    /\ ret' = PostInit(es_workspace, workspace, ns)
    /\ UNCHANGED <<kind, namespace, idx, now, lastWrite>>

\* The vector store then reads cosine_better_than_threshold and raises
\* ValueError when it is missing.
vec_post_init(es_workspace, workspace, ns, has_threshold) ==
    /\ Ready
    /\ kind = "vector"
    /\ call' = [op |-> "__post_init__", es_workspace |-> es_workspace,
                workspace |-> workspace, namespace |-> ns]
    /\ ret' = IF has_threshold THEN PostInit(es_workspace, workspace, ns)
              ELSE RaisedDoc
    /\ UNCHANGED <<kind, namespace, idx, now, lastWrite>>

\* Two stores of one class built in the same process, the override unset:
\* each runs __post_init__ on its own (workspace, namespace).
TenantWorkspaces ==
    { [set |-> FALSE],
      [set |-> TRUE, value |-> <<"a">>],
      [set |-> TRUE, value |-> <<"A">>],
      [set |-> TRUE, value |-> <<"a", "_", "b">>] }

TenantNamespaces == { <<"n">>, <<"b", "_", "n">>, <<"a", "_", "n">> }

construct_two(w1, n1, w2, n2) ==
    /\ Ready
    /\ call' = [op |-> "construct_two",
                first |-> [workspace |-> w1, namespace |-> n1],
                second |-> [workspace |-> w2, namespace |-> n2]]
    /\ ret' = << PostInit([set |-> FALSE], w1, n1),
                 PostInit([set |-> FALSE], w2, n2) >>
    /\ UNCHANGED <<kind, namespace, idx, now, lastWrite>>

\* ------------------------------------------------------------------ drop
\* drop() of the three stores: delete_by_query(match_all) under
\* get_storage_lock().  The backend takes a snapshot of the index when the
\* request arrives and deletes the documents of the snapshot; a document
\* that was rewritten in the meantime is a version conflict, which makes the
\* request fail.  upsert and delete do not take the storage lock.
DropTask == 1

\* The unit named in the success message of each store class.
DroppedWhat ==
    CASE kind = "kv" -> "documents dropped"
      [] kind = "doc_status" -> "doc statuses dropped"
      [] kind = "vector" -> "vectors dropped"

\* variant: the exception of the request leaves drop()
DropReturnRaises(fault, deleted_count) ==
    IF fault THEN RaisedDoc
    ELSE [status |-> "success", deleted |-> deleted_count,
          message |-> <<deleted_count, DroppedWhat>>]

\* What drop() returns: `deleted` is result.get("deleted", 0), shown in the
\* message.
DropReturn(fault, deleted_count) ==
    IF fault
      THEN [status |-> "error", message |-> "str(e)"]
      ELSE [status |-> "success", deleted |-> deleted_count,
            message |-> <<deleted_count, DroppedWhat>>]

\* drop(): enters `async with get_storage_lock()` and sends the request.
drop_begin ==
    /\ storageLock = None
    /\ storageLock' = DropTask
    /\ drop_result' = [status |-> "running", snapshot |-> idx]
    /\ UNCHANGED <<dataVars, scan>>

\* The response arrives: on success the snapshot is gone; a failed request
\* may have deleted part of it.
drop_end(fault, deleted) ==
    /\ storageLock = DropTask
    /\ deleted \subseteq drop_result.snapshot \cap idx
    /\ ~fault => deleted = drop_result.snapshot
    /\ idx' = idx \ deleted
    /\ lastWrite' = [k \in Ids |->
                        IF \E r \in deleted : r.id = k THEN NoneDoc
                        ELSE lastWrite[k]]
    /\ drop_result' = DropReturn(fault, Cardinality(deleted))
    /\ storageLock' = None
    /\ UNCHANGED <<kind, namespace, now, call, ret, scan>>

\* ---- drop() and a failing close() among initialize() and finalize()
\* drop() of store s: enters `async with get_storage_lock()` and sends
\* delete_by_query over self.es_client.
CallDrop(t, s) ==
    /\ pc[t] = "idle"
    /\ storageLock = None
    /\ storageLock' = t
    /\ store' = [store EXCEPT ![t] = s]
    /\ arg' = [arg EXCEPT ![t] = es_client[s]]
    /\ pc' = [pc EXCEPT ![t] = "drop_delete_by_query"]
    /\ UNCHANGED <<envVars, mgrVars, es_client, initLock, indices, mappings,
                   held, raised, dataVars, extVars>>

\* The request is answered or fails (a fault, a timeout, a closed
\* connection, no connection at all): drop() returns a status either way
\* and leaves the `async with`.
drop_delete_by_query(t, fault) ==
    /\ pc[t] = "drop_delete_by_query"
    /\ ~Usable(arg[t]) => fault
    /\ drop_result' = DropReturn(fault, 0)
    /\ storageLock' = None
    /\ Finish(t, "none")
    /\ UNCHANGED <<envVars, mgrVars, es_client, initLock, indices, mappings,
                   held, dataVars, scan>>

\* `await cls._instance.close()` raises inside finalize(): the exception
\* leaves both `async with` blocks; the cache is not cleared and
\* `self.es_client = None` is not reached.
fin_close_raises(t) ==
    /\ pc[t] = "fin_close"
    /\ lock = t
    /\ lock' = None
    /\ storageLock' = None
    /\ Finish(t, "BackendError")
    /\ UNCHANGED <<instance, ref_count, constructed, closeCount>>
    /\ UNCHANGED <<envVars, es_client, initLock, indices, mappings, held,
                   dataVars, extVars>>

\* ------------------------------------------------------------ full scans
\* search(scroll="2m", size=n) opens a scroll context over a snapshot of the
\* index and returns its first n hits; scroll(scroll_id) returns the next n
\* hits, none once the snapshot is exhausted; clear_scroll(scroll_id) closes
\* the context.  scan.rest is the part of the snapshot not yet returned,
\* scan.open the number of contexts open in the backend.
IdNames == <<"r1", "r2", "r3", "r4", "r5", "r6">>

ScanIds == {IdNames[i] : i \in 1..MaxRecords}

\* The record an index under scan holds for id.
ScanRecord(id) ==
    [id |-> id, source |-> [content |-> id, create_time |-> 1, update_time |-> 1]]

\* The orders in which a scroll may return the documents of the snapshot.
ScrollOrders(index) ==
    {o \in [1..Cardinality(index) -> index] :
        \A i, j \in DOMAIN o : i # j => o[i] # o[j]}

Min(a, b) == IF a < b THEN a ELSE b

\* response["hits"]["hits"] of the next request, and what is left after it
Page(rest, size) == SubSeq(rest, 1, Min(size, Len(rest)))

\* variant: the cursor does not advance
AfterStays(rest, size) == rest

\* variant: the request after a full page skips one document
AfterFullPageSkips(rest, size) ==
    SubSeq(rest, Min(size, Len(rest)) + (IF Len(rest) > size THEN 2 ELSE 1),
           Len(rest))

After(rest, size) == SubSeq(rest, Min(size, Len(rest)) + 1, Len(rest))

\* get_all: `result[hit["_id"]] = doc` for every hit of a page
KVTake(result, hits) ==
    [k \in DOMAIN result \cup {hits[i].id : i \in DOMAIN hits} |->
        IF \E i \in DOMAIN hits : hits[i].id = k
          THEN LET i == CHOOSE j \in DOMAIN hits :
                            /\ hits[j].id = k
                            /\ \A l \in DOMAIN hits : hits[l].id = k => l <= j
               IN SetDefault(SetDefault(hits[i].source, "create_time", 0),
                             "update_time", 0)
          ELSE result[k]]

\* The scan returns to its caller.
ScanDone(op, fault, value) ==
    /\ scan' = [scan EXCEPT !.pc = "done", !.fault = IF @ = "none" THEN fault ELSE @]
    /\ call' = [op |-> op]
    /\ ret' = value

\* One page was received: the loop body runs up to the next request.
ScanPage(rest, acc, opened) ==
    LET hits == Page(rest, scan.size)
    IN /\ scan' = [scan EXCEPT
                     !.pc = IF hits # <<>> THEN "scroll" ELSE "clear",
                     !.rest = After(rest, scan.size),
                     !.acc = acc,
                     !.pages = IF hits # <<>> THEN @ + 1 ELSE @,
                     !.open = @ + opened]
       /\ UNCHANGED <<call, ret>>

\* ElasticsearchKVStorage.get_all: the opening search
kv_get_all_search(fault, order) ==
    /\ kind = "kv"
    /\ scan.pc = "idle"
    /\ IF fault
         THEN ScanDone("get_all", "search", scan.acc)
         ELSE ScanPage(order, KVTake(scan.acc, Page(order, scan.size)), 1)

\* get_all: `response = await self.es_client.scroll(...)` in the loop
kv_get_all_scroll(fault) ==
    /\ kind = "kv"
    /\ scan.pc = "scroll"
    /\ scan.pages <= MaxRecords
    /\ IF fault
         THEN ScanDone("get_all", "scroll", scan.acc)
         ELSE ScanPage(scan.rest, KVTake(scan.acc, Page(scan.rest, scan.size)), 0)

\* get_all: `await self.es_client.clear_scroll(...)` after the loop
kv_get_all_clear(fault) ==
    /\ kind = "kv"
    /\ scan.pc = "clear"
    /\ IF fault
         THEN ScanDone("get_all", "clear", scan.acc)
         ELSE /\ scan' = [scan EXCEPT !.pc = "done", !.open = @ - 1]
              /\ call' = [op |-> "get_all"]
              /\ ret' = scan.acc

\* ElasticsearchDocStatusStorage._scroll_hits: the opening search
ds_scroll_hits_search(fault, order) ==
    /\ kind = "doc_status"
    /\ scan.pc = "idle"
    /\ IF fault
         THEN ScanDone("_scroll_hits", "search", scan.acc)
         ELSE ScanPage(order, scan.acc \o Page(order, scan.size), 1)

\* _scroll_hits: the scroll request in the loop; when it raises, the
\* handler goes on to clear the scroll.
ds_scroll_hits_scroll(fault) ==
    /\ kind = "doc_status"
    /\ scan.pc = "scroll"
    /\ scan.pages <= MaxRecords
    /\ IF fault
         THEN /\ scan' = [scan EXCEPT !.pc = "clear_on_error", !.fault = "scroll"]
              /\ UNCHANGED <<call, ret>>
         ELSE ScanPage(scan.rest, scan.acc \o Page(scan.rest, scan.size), 0)

\* _scroll_hits: clear_scroll after the loop; when it raises, the handler
\* tries once more.
ds_scroll_hits_clear(fault) ==
    /\ kind = "doc_status"
    /\ scan.pc = "clear"
    /\ IF fault
         THEN /\ scan' = [scan EXCEPT !.pc = "clear_on_error", !.fault = "clear"]
              /\ UNCHANGED <<call, ret>>
         ELSE /\ scan' = [scan EXCEPT !.pc = "done", !.open = @ - 1]
              /\ call' = [op |-> "_scroll_hits"]
              /\ ret' = scan.acc

\* _scroll_hits: clear_scroll in the handler, its own exception suppressed
ds_scroll_hits_clear_on_error(fault) ==
    /\ kind = "doc_status"
    /\ scan.pc = "clear_on_error"
    /\ scan' = [scan EXCEPT !.pc = "done", !.open = IF fault THEN @ ELSE @ - 1]
    /\ call' = [op |-> "_scroll_hits"]
    /\ ret' = scan.acc

\* ----------------------------------------------------------- hybrid query
\* Texts of records and of queries.
Texts == {"x", "y", "x y"}

\* The terms the analyzer of the "content" field finds in a text.
Terms(text) == IF text = "x y" THEN {"x", "y"} ELSE {text}

\* The record an earlier upsert stored for id with this content: r1 was
\* upserted without an accreditation level, r2 with 5 and r3 with 10.
CorpusRecord(id, content) ==
    LET v == CASE id = "r2" -> [content |-> content, accreditation_level |-> 5]
               [] id = "r3" -> [content |-> content, accreditation_level |-> 10]
               [] OTHER -> [content |-> content]
    IN [id |-> id, source |-> VectorDoc(v, Embedding(content), 1)]

CorpusIds == {"r1", "r2", "r3"}

Corpora ==
    {{CorpusRecord(id, c[id]) : id \in S} :
        S \in SUBSET CorpusIds, c \in [CorpusIds -> Texts]}

\* The rank of r in a result list, 0 when it is not in the list.
RankIn(list, r) ==
    IF \E i \in DOMAIN list : list[i] = r
    THEN CHOOSE i \in DOMAIN list : list[i] = r
    ELSE 0

\* The members of S in the order of the strict total order `before`, a
\* function of pairs of members.
Ranked(S, before) ==
    [i \in 1..Cardinality(S) |->
        CHOOSE r \in S : Cardinality({x \in S : before[x, r]}) = i - 1]

\* knn: the k records nearest to query_vector by cosine similarity.  A
\* record whose embedding is the query vector is nearer than any record
\* whose embedding is another vector; `order` decides between the rest.
KnnList(index, query_vector, k, order) ==
    LET Near(r) == r.source["embedding"] = query_vector
        before == [r \in index, x \in index |->
                      \/ Near(r) /\ ~Near(x)
                      \/ Near(r) = Near(x) /\ RankIn(order, r) < RankIn(order, x)]
    IN Page(Ranked(index, before), k)

\* query: {match: {content: query}}: the records that share a term with the
\* query, by relevance; `order` decides the relevance order.
MatchList(index, query, order) ==
    LET matching == {r \in index : Terms(r.source["content"]) \cap Terms(query) # {}}
        before == [r \in matching, x \in matching |->
                      RankIn(order, r) < RankIn(order, x)]
    IN Ranked(matching, before)

\* "rank_constant": 60
rank_constant == 60

\* The share of one result list in the fused score of r, as a fraction.
Reciprocal(list, r) ==
    IF RankIn(list, r) = 0 THEN [num |-> 0, den |-> 1]
    ELSE [num |-> 1, den |-> rank_constant + RankIn(list, r)]

Sum(a, b) == [num |-> a.num * b.den + b.num * a.den, den |-> a.den * b.den]

\* variant: the lower fused score ranks first
ScoreAboveAscending(a, b) == a.num * b.den < b.num * a.den

ScoreAbove(a, b) == a.num * b.den > b.num * a.den

\* rank: {rrf: {window_size, rank_constant}} over the two result lists, the
\* first `size` hits; `tie` decides between equal scores.
Rrf(knn, matched, window_size, size, tie) ==
    LET knn_w == Page(knn, window_size)
        matched_w == Page(matched, window_size)
        cands == {knn_w[i] : i \in DOMAIN knn_w}
                     \cup {matched_w[i] : i \in DOMAIN matched_w}
        Score(r) == Sum(Reciprocal(knn_w, r), Reciprocal(matched_w, r))
        before == [r \in cands, x \in cands |->
                      \/ ScoreAbove(Score(r), Score(x))
                      \/ /\ ~ScoreAbove(Score(x), Score(r))
                         /\ RankIn(tie, r) < RankIn(tie, x)]
        fused == Page(Ranked(cands, before), size)
    IN [i \in DOMAIN fused |->
           [id |-> fused[i].id, source |-> fused[i].source,
            score |-> Score(fused[i])]]

\* variant: a hit carries its id and its score only
HitDocBare(hit) == [id |-> hit.id, score |-> hit.score]

\* doc = hit["_source"]; doc["id"] = hit["_id"]; doc["score"] = hit["_score"]
HitDoc(hit) == Put(Put(hit.source, "id", hit.id), "score", hit.score)

\* query: the embedding of the text is computed when none is given
\* (query_embedding is [set |-> FALSE]), outside the guarded part; the search and the reading of its hits are guarded.
vec_query(query, top_k, query_embedding, embed_fault, fault, knn_order, match_order) ==
    /\ Ready
    /\ kind = "vector"
    /\ LET given == query_embedding.set
           knn == KnnList(idx, IF given THEN query_embedding.value ELSE Embedding(query),
                          top_k, knn_order)
           matched == MatchList(idx, query, match_order)
           hits == Rrf(knn, matched, top_k * 2, top_k, knn_order)
       IN /\ given => ~embed_fault
          /\ (embed_fault \/ fault) => (knn_order = match_order)
          /\ ret' = IF embed_fault THEN RaisedDoc
                    ELSE IF fault THEN <<>>
                    ELSE [i \in DOMAIN hits |-> HitDoc(hits[i])]
          /\ call' = [op |-> "query", query |-> query, top_k |-> top_k,
                      given |-> given, fault |-> embed_fault \/ fault,
                      embed_fault |-> embed_fault,
                      knn |-> [i \in DOMAIN knn |-> knn[i].id],
                      matched |-> [i \in DOMAIN matched |-> matched[i].id]]
    /\ UNCHANGED <<kind, namespace, idx, now, lastWrite>>

\* The query modes of POST /query.
QueryModes == {"naive", "local", "global", "hybrid"}

\* item.get("accreditation_level", 0)
LevelOf(item) ==
    IF "accreditation_level" \in DOMAIN item THEN item["accreditation_level"] ELSE 0

\* POST /query with user_accreditation_level: in every mode the chunks,
\* entities and relationships of the answer are the hits of the vector
\* store's query whose accreditation level is at most the user's.
post_query(mode, user_accreditation_level, query, top_k, fault, order) ==
    /\ Ready
    /\ kind = "vector"
    /\ LET knn == KnnList(idx, Embedding(query), top_k, order)
           matched == MatchList(idx, query, order)
           hits == Rrf(knn, matched, top_k * 2, top_k, order)
           results == IF fault THEN <<>>
                      ELSE [i \in DOMAIN hits |-> HitDoc(hits[i])]
       IN /\ ret' = SelectSeq(results,
                              LAMBDA item : LevelOf(item) <= user_accreditation_level)
          /\ call' = [op |-> "post_query", mode |-> mode,
                      user_accreditation_level |-> user_accreditation_level,
                      fault |-> fault, found |-> Len(results)]
    /\ UNCHANGED <<kind, namespace, idx, now, lastWrite>>

\* ------------------------------------------------------------- pagination
\* Ids of the status documents of an index that is paged through.
DocNames ==
    << "d01", "d02", "d03", "d04", "d05", "d06", "d07", "d08", "d09", "d10", "d11", "d12",
       "d13", "d14", "d15", "d16", "d17", "d18", "d19", "d20", "d21", "d22", "d23", "d24", "d25", "d26" >>

DocNo(id) == CHOOSE i \in DOMAIN DocNames : DocNames[i] = id

\* What a caller upserted for document number i: one document in eight has
\* a field that DocProcessingStatus does not have.
PagePayload(i) ==
    LET base == [status |-> CASE i % 3 = 0 -> "DocStatus.PENDING"
                              [] i % 3 = 1 -> "processed"
                              [] OTHER -> "failed",
                 file_path |-> "f1",
                 created_at |-> IsoTable[(i % 3) + 1],
                 updated_at |-> IsoTable[((i * 2) % 5) + 1]]
    IN IF i % 8 = 5 THEN Put(base, "note", "n") ELSE base

\* The document upsert stored for it.
PageRecord(i) ==
    [id |-> DocNames[i], source |-> NormalizeDocStatusInput(PagePayload(i), 1)]

PageCorpora == {{PageRecord(i) : i \in 1..n} : n \in {0, 1, 11, MaxDocs}}

\* _build_processing_status: DocProcessingStatus(**data) raises TypeError
\* for a keyword that is no field of the class, and the result is None.
BuildProcessingStatus(source, t) ==
    LET data == PrepareDocStatusData(source, t)
    IN IF DOMAIN data \subseteq StatusSchema THEN data ELSE NoneDoc

\* _scroll_hits for a query on status (PyNone: match_all): the matching
\* documents in the order of the index or in the opposite order; nothing
\* when the search request fails, everything when a later request fails.
ScrollHits(status_value, order, fault) ==
    LET matching == {r \in idx : \/ status_value = PyNone
                                 \/ /\ Has(r.source, "status")
                                    /\ r.source["status"] = status_value}
        ids == SelectSeq(DocNames, LAMBDA id : \E r \in matching : r.id = id)
        forward == [i \in DOMAIN ids |-> CHOOSE r \in matching : r.id = ids[i]]
    IN IF fault = "search" THEN <<>>
       ELSE IF order = "forward" THEN forward
       ELSE [i \in DOMAIN forward |-> forward[Len(forward) + 1 - i]]

\* Strings in the order Python compares them.
SortStrings == <<"">> \o IsoTable \o DocNames

StrRank(str) == CHOOSE i \in DOMAIN SortStrings : SortStrings[i] = str

\* item[2] or ""
OrEmpty(x) == IF Falsy(x) THEN "" ELSE x

\* variant: reverse is ignored
SortAscending(items, reverse) ==
    LET K == [i \in DOMAIN items |-> StrRank(OrEmpty(items[i].key))]
        Pos == [i \in DOMAIN items |->
                   1 + Cardinality({j \in DOMAIN items :
                           K[j] < K[i] \/ (K[j] = K[i] /\ j < i)})]
    IN [p \in DOMAIN items |-> items[CHOOSE i \in DOMAIN items : Pos[i] = p]]

\* list.sort(key=lambda item: item[2] or "", reverse=reverse): stable, and
\* with reverse items of equal key keep their order too.
Sort(items, reverse) ==
    LET K == [i \in DOMAIN items |-> StrRank(OrEmpty(items[i].key))]
        Pos == [i \in DOMAIN items |->
                   1 + Cardinality({j \in DOMAIN items :
                           \/ IF reverse THEN K[j] > K[i] ELSE K[j] < K[i]
                           \/ K[j] = K[i] /\ j < i})]
    IN [p \in DOMAIN items |-> items[CHOOSE i \in DOMAIN items : Pos[i] = p]]

Max(a, b) == IF a > b THEN a ELSE b

\* the smallest and the largest page_size
MinPageSize == 10
MaxPageSize == 200

\* variant: a small page_size is taken as it is
PageSizeOfNoFloor(page_size) == Max(1, Min(MaxPageSize, page_size))

\* page_size = max(10, min(200, page_size))
PageSizeOf(page_size) == Max(MinPageSize, Min(MaxPageSize, page_size))

\* page = max(1, page)
PageOf(page) == Max(1, page)

SortFieldOf(sort_field) ==
    IF sort_field \in {"created_at", "updated_at", "id"} THEN sort_field
    ELSE "updated_at"

\* reverse_sort = sort_direction.lower() == "desc"
ReverseSort(sort_direction) == Lower(sort_direction) = <<"d", "e", "s", "c">>

\* docs_with_sort before it is sorted: the hits a status record can be built
\* from, with their sort keys.
DocsWithSort(hits, sort_field, t) ==
    LET statuses == [i \in DOMAIN hits |->
                        [id |-> hits[i].id,
                         doc |-> BuildProcessingStatus(hits[i].source, t)]]
        built == SelectSeq(statuses, LAMBDA h : h.doc # NoneDoc)
    IN [i \in DOMAIN built |->
           LET doc_status == built[i].doc
           IN [id |-> built[i].id, doc |-> doc_status,
               key |-> IF sort_field = "id" THEN built[i].id
                       ELSE doc_status[sort_field]]]

\* docs_with_sort[start_idx:end_idx]
Slice(list, start_idx, end_idx) ==
    IF start_idx >= Len(list) THEN <<>>
    ELSE SubSeq(list, start_idx + 1, Min(end_idx, Len(list)))

\* get_docs_paginated with status_filter PyNone or a member of DocStatus
GetDocsPaginated(status_filter, page0, page_size0, sort_field0, sort_direction, order, fault, t) ==
    LET page == PageOf(page0)
        page_size == PageSizeOf(page_size0)
        sort_field == SortFieldOf(sort_field0)
        reverse_sort == ReverseSort(sort_direction)
        hits == ScrollHits(IF status_filter = PyNone THEN PyNone
                           ELSE DocStatusEnum[status_filter], order, fault)
        docs_with_sort == Sort(DocsWithSort(hits, sort_field, t), reverse_sort)
        start_idx == (page - 1) * page_size
        end_idx == start_idx + page_size
        paginated == Slice(docs_with_sort, start_idx, end_idx)
    IN [paginated |-> [i \in DOMAIN paginated |->
                          [id |-> paginated[i].id, doc |-> paginated[i].doc]],
        total_count |-> Len(docs_with_sort),
        page |-> page, page_size |-> page_size, sort_field |-> sort_field,
        reverse_sort |-> reverse_sort,
        docs_with_sort |-> [i \in DOMAIN docs_with_sort |-> docs_with_sort[i].id]]

ds_get_docs_paginated(status_filter, page, page_size, sort_field, sort_direction, order, fault) ==
    /\ Ready
    /\ kind = "doc_status"
    /\ \E r \in {GetDocsPaginated(status_filter, page, page_size, sort_field,
                                 sort_direction, order, fault, now)} :
          /\ ret' = <<r.paginated, r.total_count>>
          /\ call' = [op |-> "get_docs_paginated",
                      status_filter |-> status_filter,
                      page |-> page, page_size |-> page_size,
                      sort_field |-> sort_field,
                      sort_direction |-> sort_direction,
                      order |-> order, fault |-> fault,
                      locals |-> [page |-> r.page, page_size |-> r.page_size,
                                  sort_field |-> r.sort_field,
                                  reverse_sort |-> r.reverse_sort,
                                  docs_with_sort |-> r.docs_with_sort]]
    /\ UNCHANGED <<kind, namespace, idx, now, lastWrite>>

\* ------------------------------------------------------------------ specs
\* No data operation has run.
DataIdle ==
    /\ kind = "kv"
    /\ namespace = "full_docs"
    /\ idx = {}
    /\ now = 1
    /\ call = [op |-> "none"]
    /\ ret = [none |-> TRUE]
    /\ lastWrite = [k \in Ids |-> NoneDoc]
    /\ scan = [pc |-> "idle"]
    /\ drop_result = NoneDoc

\* The connection manager and the stores' initialize/finalize; the data
\* operations are not exercised.
Init == ConnInit /\ DataIdle

\* Callers that use the manager directly.
NextMgr ==
    \/ SetEnv
    \/ \E t \in Tasks : CallGetClient(t)
    \/ \E t \in Tasks : get_client(t)
    \/ \E t \in Tasks : CallReleaseClient(t)
    \/ \E t \in Tasks : release_client(t)
    \/ \E t \in Tasks : close(t)

\* Stores that initialize and finalize.
NextStores ==
    \/ \E t \in Tasks, s \in Stores : CallInitialize(t, s)
    \/ \E t \in Tasks : init_get_client(t)
    \/ \E t \in Tasks : init_exists(t)
    \/ \E t \in Tasks : init_create(t)
    \/ \E t \in Tasks, s \in Stores : CallFinalize(t, s)
    \/ \E t \in Tasks : fin_release(t)
    \/ \E t \in Tasks : fin_close(t)

Next ==
    /\ UNCHANGED <<dataVars, extVars>>
    /\ (NextMgr \/ NextStores)

Spec == Init /\ [][Next]_vars

\* The manager with callers that also release handles they do not own.
NextAny ==
    /\ UNCHANGED <<dataVars, extVars>>
    /\ \/ NextMgr
       \/ \E t \in Tasks, h \in 0..constructed : CallReleaseAny(t, h)

SpecAny == Init /\ [][NextAny]_vars

\* The data operations of one store, on an open connection.
DataInit ==
    /\ ConnInit
    /\ es_url = "http://es:9200"
    /\ cloud_id = ""
    /\ kind \in {"kv", "doc_status", "vector"}
    /\ namespace \in IF kind = "kv" THEN {"full_docs", "text_chunks"}
                     ELSE IF kind = "doc_status" THEN {"doc_status"}
                     ELSE {"chunks"}
    /\ idx = {}
    /\ now = 1
    /\ call = [op |-> "none"]
    /\ ret = NoneDoc
    /\ lastWrite = [k \in Ids |-> NoneDoc]
    /\ scan = [pc |-> "idle"]
    /\ drop_result = NoneDoc

NextData ==
    /\ UNCHANGED <<connVars, extVars>>
    /\ \/ Tick
       \/ Return
       \/ NextKV
       \/ NextDocStatus
       \/ NextVector

SpecData == DataInit /\ [][NextData]_vars

\* A full scan of an index that nobody writes to.
ScanInit ==
    /\ ConnInit
    /\ es_url = "http://es:9200"
    /\ cloud_id = ""
    /\ kind \in {"kv", "doc_status"}
    /\ namespace = IF kind = "kv" THEN "full_docs" ELSE "doc_status"
    /\ idx \in {{ScanRecord(id) : id \in S} : S \in SUBSET ScanIds}
    /\ now = 1
    /\ call = [op |-> "none"]
    /\ ret = IF kind = "kv" THEN NoneDoc ELSE <<>>
    /\ lastWrite = [k \in Ids |-> NoneDoc]
    /\ scan \in {[pc |-> "idle", size |-> n, rest |-> <<>>, acc |-> <<>>,
                  pages |-> 0, open |-> 0, fault |-> "none"] : n \in 1..MaxPage}
    /\ drop_result = NoneDoc

NextScan ==
    /\ UNCHANGED <<connVars, kind, namespace, idx, now, lastWrite, drop_result>>
    /\ \/ \E fault \in BOOLEAN, order \in ScrollOrders(idx) :
              kv_get_all_search(fault, order)
       \/ \E fault \in BOOLEAN : kv_get_all_scroll(fault)
       \/ \E fault \in BOOLEAN : kv_get_all_clear(fault)
       \/ \E fault \in BOOLEAN, order \in ScrollOrders(idx) :
              ds_scroll_hits_search(fault, order)
       \/ \E fault \in BOOLEAN : ds_scroll_hits_scroll(fault)
       \/ \E fault \in BOOLEAN : ds_scroll_hits_clear(fault)
       \/ \E fault \in BOOLEAN : ds_scroll_hits_clear_on_error(fault)

SpecScan == ScanInit /\ [][NextScan]_vars

\* The same with a backend that answers every request, with a page, an
\* empty page or an error.
SpecScanFair == ScanInit /\ [][NextScan]_vars /\ WF_scan(NextScan)

\* The dicts the writer next to a drop() passes to the KV store.
KVPlainDicts == Dicts(KVFields, KVFields)

\* drop() next to a caller that writes to the same store.  Store 1 has been
\* initialized: its index exists and it holds the shared connection.
DropInit ==
    /\ es_url = "http://es:9200"
    /\ cloud_id = ""
    /\ instance = 1
    /\ ref_count = 1
    /\ lock = None
    /\ constructed = 1
    /\ closeCount = [c \in Conns |-> 0]
    /\ es_client = [s \in Stores |-> IF s = 1 THEN 1 ELSE None]
    /\ initLock = None
    /\ storageLock = None
    /\ indices = {IndexName(1)}
    /\ mappings = [n \in IndexNames |-> IF n = IndexName(1) THEN IndexType(1) ELSE "none"]
    /\ pc = [t \in Tasks |-> "idle"]
    /\ store = [t \in Tasks |-> None]
    /\ held = [t \in Tasks |-> None]
    /\ arg = [t \in Tasks |-> None]
    /\ raised = "none"
    /\ kind \in {"kv", "doc_status", "vector"}
    /\ namespace = IF kind = "kv" THEN "full_docs"
                   ELSE IF kind = "doc_status" THEN "doc_status" ELSE "chunks"
    /\ idx = {}
    /\ now = 1
    /\ call = [op |-> "none"]
    /\ ret = NoneDoc
    /\ lastWrite = [k \in Ids |-> NoneDoc]
    /\ scan = [pc |-> "idle"]
    /\ drop_result = NoneDoc

NextDrop ==
    /\ UNCHANGED <<envVars, mgrVars, es_client, initLock, indices, mappings, taskVars>>
    /\ \/ drop_begin
       \/ \E fault \in BOOLEAN, deleted \in SUBSET idx : drop_end(fault, deleted)
       \/ /\ UNCHANGED <<storageLock, extVars>>
          /\ \/ Return
             \/ \E data \in KVPlainDicts : \E applied \in Positions(data) :
                    kv_upsert(data, applied)
             \/ \E ids \in IdLists : \E applied \in Positions(ids) :
                    kv_delete(ids, applied)
             \/ \E data \in DocStatusDicts : \E rejected \in Positions(data) :
                    ds_upsert(data, rejected)
             \/ \E ids \in IdLists : \E applied \in Positions(ids) :
                    ds_delete(ids, applied)
             \/ \E data \in VectorDicts : \E rejected \in Positions(data) :
                    \E embed_fault \in BOOLEAN, size \in BatchSizes :
                    \E completion \in UNION {Completions(n) : n \in 0..Len(data)} :
                        vec_upsert(data, rejected, embed_fault, size, completion)
             \/ \E ids \in IdLists : \E applied \in Positions(ids) :
                    vec_delete(ids, applied)

SpecDrop == DropInit /\ [][NextDrop]_vars

\* Reads of stores that hold records, with and without a failing backend.
ReadsInit ==
    /\ ConnInit
    /\ es_url = "http://es:9200"
    /\ cloud_id = ""
    /\ kind \in {"kv", "doc_status", "vector"}
    /\ namespace = (IF kind = "kv" THEN "full_docs"
                    ELSE IF kind = "doc_status" THEN "doc_status" ELSE "chunks")
    /\ idx \in IF kind = "vector" THEN Corpora
               ELSE {{[id |-> k,
                       source |-> IF kind = "kv"
                                    THEN [content |-> "c", create_time |-> 1,
                                          update_time |-> 1]
                                    ELSE NormalizeDocStatusInput(
                                             [status |-> "processed",
                                              file_path |-> "f1"], 1)] : k \in S} :
                        S \in SUBSET Ids}
    /\ now = 1
    /\ call = [op |-> "none"]
    /\ ret = NoneDoc
    /\ lastWrite = [k \in Ids |-> NoneDoc]
    /\ scan = [pc |-> "idle"]
    /\ drop_result = NoneDoc

NextReads ==
    /\ UNCHANGED <<connVars, extVars>>
    /\ \/ Return
       \/ \E ids \in IdLists, fault \in BOOLEAN : kv_get_by_ids(ids, fault)
       \/ \E keys \in SUBSET Ids, fault \in BOOLEAN : kv_filter_keys(keys, fault)
       \/ \E ids \in IdLists, fault \in BOOLEAN : ds_get_by_ids(ids, fault)
       \/ \E keys \in SUBSET Ids, fault \in BOOLEAN : ds_filter_keys(keys, fault)
       \/ \E file_path \in {"f1", "f2"}, fault \in BOOLEAN :
              \E hit \in idx \cup {NoneDoc} :
                  ds_get_doc_by_file_path(file_path, fault, hit)
       \/ \E ids \in UNION {[1..n -> CorpusIds] : n \in 0..MaxIds}, fault \in BOOLEAN :
              vec_get_vectors_by_ids(ids, fault)
       \/ /\ Ready
          /\ \E query \in Texts, top_k \in 1..MaxTopK,
                embed_fault \in BOOLEAN, fault \in BOOLEAN :
                 \E order \in ScrollOrders(idx) :
                     vec_query(query, top_k, [set |-> FALSE], embed_fault, fault,
                               order, order)

SpecReads == ReadsInit /\ [][NextReads]_vars

\* Upserts of many records in one call, into a status store or a vector
\* store.
BulkInit ==
    /\ DataInit
    /\ kind \in {"doc_status", "vector"}

\* data of n items, all with the payload v
ManyItems(n, v) == [i \in 1..n |-> [k |-> "k" \o ToString(i), v |-> v]]

NextBulk ==
    /\ UNCHANGED <<connVars, extVars>>
    /\ \/ Return
       \/ /\ Ready
          /\ \E n \in {1, chunk_size, chunk_size + 1} :
             \E rejected \in {{}, {1}, {n}} :
                \/ \E v \in IF n = 1 THEN DocStatusPayloads
                             ELSE {[status |-> "failed", error |-> "boom"]} :
                       ds_upsert(ManyItems(n, v), rejected)
                \/ \E v \in IF n = 1 THEN VectorPayloads ELSE {[content |-> "y"]} :
                       vec_upsert(ManyItems(n, v), rejected, FALSE, n, <<1>>)

SpecBulk == BulkInit /\ [][NextBulk]_vars

\* Construction of stores from every combination of override, workspace
\* argument and namespace.
NextName ==
    /\ UNCHANGED <<connVars, extVars>>
    /\ \/ Return
       \/ \E e, w \in Optionals, ns \in Namespaces : kv_post_init(e, w, ns)
       \/ \E e, w \in Optionals, ns \in Namespaces : ds_post_init(e, w, ns)
       \/ \E e, w \in Optionals, ns \in Namespaces, th \in BOOLEAN :
              vec_post_init(e, w, ns, th)

SpecName == DataInit /\ [][NextName]_vars

\* Pairs of stores of one class built for two tenants.
NextTenants ==
    /\ UNCHANGED <<connVars, extVars>>
    /\ \/ Return
       \/ \E w1, w2 \in TenantWorkspaces, n1, n2 \in TenantNamespaces :
              construct_two(w1, n1, w2, n2)

SpecTenants == DataInit /\ [][NextTenants]_vars

\* A vector store that holds a corpus and answers queries.
QueryInit ==
    /\ ConnInit
    /\ es_url = "http://es:9200"
    /\ cloud_id = ""
    /\ kind = "vector"
    /\ namespace = "chunks"
    /\ idx \in Corpora
    /\ now = 1
    /\ call = [op |-> "none"]
    /\ ret = NoneDoc
    /\ lastWrite = [k \in Ids |-> NoneDoc]
    /\ scan = [pc |-> "idle"]
    /\ drop_result = NoneDoc

NextQuery ==
    /\ UNCHANGED <<connVars, extVars>>
    /\ \/ Return
       \/ /\ Ready
          /\ \E query \in Texts, top_k \in 1..MaxTopK,
                query_embedding \in {[set |-> FALSE],
                                     [set |-> TRUE, value |-> Embedding("y")]},
                embed_fault \in BOOLEAN, fault \in BOOLEAN :
                 \E knn_order \in ScrollOrders(idx), match_order \in ScrollOrders(idx) :
                     vec_query(query, top_k, query_embedding, embed_fault, fault,
                               knn_order, match_order)
       \/ /\ Ready
          /\ \E mode \in QueryModes, user_accreditation_level \in {0, 5, 10},
                query \in Texts, top_k \in 1..MaxTopK, fault \in BOOLEAN :
                 \E order \in ScrollOrders(idx) :
                     post_query(mode, user_accreditation_level, query, top_k,
                                fault, order)

SpecQuery == QueryInit /\ [][NextQuery]_vars

\* A status store whose index is paged through.
PagesInit ==
    /\ ConnInit
    /\ es_url = "http://es:9200"
    /\ cloud_id = ""
    /\ kind = "doc_status"
    /\ namespace = "doc_status"
    /\ idx \in PageCorpora
    /\ now = 1
    /\ call = [op |-> "none"]
    /\ ret = NoneDoc
    /\ lastWrite = [k \in Ids |-> NoneDoc]
    /\ scan = [pc |-> "idle"]
    /\ drop_result = NoneDoc

SortDirections == { <<"a", "s", "c">>, <<"d", "e", "s", "c">>, <<"D", "E", "S", "C">> }

NextPages ==
    /\ UNCHANGED <<connVars, extVars>>
    /\ \/ Return
       \/ /\ Ready
          /\ \E status_filter \in {PyNone, "DocStatus.PROCESSED", "DocStatus.PROCESSING"},
                page \in {0, 1, 2, 3, 4},
                page_size \in {5, 10, 11, 250},
                sort_field \in {"created_at", "updated_at", "id", "file_path"},
                sort_direction \in SortDirections,
                order \in {"forward", "backward"},
                fault \in {"none", "search", "scroll"} :
                 ds_get_docs_paginated(status_filter, page, page_size, sort_field,
                                       sort_direction, order, fault)

SpecPages == PagesInit /\ [][NextPages]_vars

\* Stores that initialize, finalize and drop, with a close() that may fail.
NextLocks ==
    \/ /\ UNCHANGED <<dataVars, extVars>>
       /\ NextStores
    \/ \E t \in Tasks, s \in Stores : CallDrop(t, s)
    \/ \E t \in Tasks, fault \in BOOLEAN : drop_delete_by_query(t, fault)
    \/ \E t \in Tasks : fin_close_raises(t)

SpecLocks == Init /\ [][NextLocks]_vars

\* =================================================================== claims
\* A call of the manager is in progress (a coroutine is inside get_client,
\* release_client, initialize or finalize).
Busy == \E t \in Tasks : pc[t] # "idle"

\* Handles in the hands of callers and stores.
HeldHandles ==
    {held[t] : t \in Tasks} \cup {es_client[s] : s \in Stores}

GetsHandle(t) ==
    \/ pc[t] = "get_client" /\ pc'[t] = "idle" /\ held'[t] # None
    \/ pc[t] = "init_get_client" /\ pc'[t] = "init_exists"

\* The handle that step hands over.
HandleGot(t) ==
    IF pc[t] = "get_client" THEN held'[t] ELSE es_client'[store[t]]

\* C4: a release that brings the count to zero closes the connection and
\* clears the cache; the next get_client() builds a new connection with
\* count 1; while the count is above zero get_client() builds nothing and
\* returns the cached handle.
C4_Step ==
    \* the count reaches zero: close() is awaited under the mutex
    /\ (ref_count' < ref_count /\ ref_count' = 0) => lock' # None
    \* the mutex is given back after close(): closed once more, cache cleared
    /\ (lock # None /\ lock' = None) =>
         /\ instance' = None
         /\ ref_count' = 0
         /\ closeCount' = [closeCount EXCEPT ![instance] = @ + 1]
    \* a get_client() returned a handle
    /\ \A t \in Tasks :
         GetsHandle(t) =>
             /\ HandleGot(t) = instance'
             /\ IF ref_count > 0
                  THEN /\ constructed' = constructed
                       /\ instance' = instance
                       /\ ref_count' = ref_count + 1
                  ELSE /\ constructed' = constructed + 1
                       /\ instance' \notin {None} \cup (1..constructed)
                       /\ closeCount'[instance'] = 0
                       /\ ref_count' = 1

C5_Step ==
    \A t \in Tasks :
        (pc[t] \in {"get_client", "init_get_client"} /\ pc'[t] # pc[t]
           /\ instance = None) =>
            IF es_url = "" /\ cloud_id = ""
              THEN /\ raised' = "ValueError"
                   /\ pc'[t] = "idle"
                   /\ instance' = None
                   /\ ref_count' = ref_count
                   /\ constructed' = constructed
                   /\ lock' = None
                   /\ held'[t] = None
                   /\ es_client' = es_client
              ELSE /\ GetsHandle(t)
                   /\ HandleGot(t) = constructed + 1
                   /\ instance' = constructed + 1
                   /\ ref_count' = 1

C5_ConfigErrorLeavesManager == [][C5_Step]_vars

\* A get_client() has just failed for lack of a target, after an earlier
\* connection had been built and closed.
W_C5 ==
    /\ raised = "ValueError"
    /\ instance = None
    /\ ref_count = 0
    /\ constructed >= 1

\* Fields the KV store adds to what the caller wrote.
KVStamps == {"create_time", "update_time", "llm_cache_list"}

\* C6: the KV store is a map keyed by id: get_by_id(id) returns the fields
\* of the most recent upsert of id that the backend applied, and nothing of
\* earlier versions, when no later delete removed it, and None otherwise;
\* the index never holds two records with the same id.
C6_MapKeyedById ==
    /\ \A id \in Ids : Cardinality(Stored(id)) <= 1
    /\ (kind = "kv" /\ call.op = "get_by_id" /\ ~call.fault) =>
         IF lastWrite[call.id] = NoneDoc
           THEN ret = NoneDoc
           ELSE /\ ret # NoneDoc
                /\ \A f \in DOMAIN lastWrite[call.id].v :
                       f \in DOMAIN ret /\ ret[f] = lastWrite[call.id].v[f]
                /\ DOMAIN ret \subseteq DOMAIN lastWrite[call.id].v \cup KVStamps
                /\ ret["update_time"] = lastWrite[call.id].at

\* get_by_id returned a record that was written at second 2 without the
\* optional field, while the other id has no record.
W_C6 ==
    /\ kind = "kv"
    /\ call.op = "get_by_id"
    /\ ~call.fault
    /\ ret # NoneDoc
    /\ "file_path" \notin DOMAIN ret
    /\ lastWrite[call.id].at = 2
    /\ \E id \in Ids : Stored(id) = {}

\* C7: an upsert that writes an id again with identical fields, the caller
\* handing back the stored create_time, leaves exactly one record of that
\* id, with the create_time it had and update_time the time of this write.
C7_Step ==
    (kind = "kv" /\ Ready /\ call'.op = "upsert") =>
        \A id \in call'.again :
            /\ Cardinality(Stored(id)') = 1
            /\ SourceOf(id)'["create_time"] = SourceOf(id)["create_time"]
            /\ SourceOf(id)'["update_time"] = now

C7_RewriteKeepsCreateTime == [][C7_Step]_vars

\* Such an upsert has just been applied, later than the record's creation.
W_C7 ==
    /\ kind = "kv"
    /\ call.op = "upsert"
    /\ \E id \in call.again :
           /\ SourceOf(id)["create_time"] < now
           /\ SourceOf(id)["update_time"] = now

\* C8: create_time is set once: a step of the KV store or the vector store
\* that finds a record of id and leaves one does not change its create_time.
C8_Step ==
    kind \in {"kv", "vector"} =>
        \A id \in Ids :
            (Stored(id) # {} /\ Stored(id)' # {}) =>
                SourceOf(id)'["create_time"] = SourceOf(id)["create_time"]

C8_CreateTimeSetOnce == [][C8_Step]_vars

\* What get_by_ids gives for a stored record of the KV store and of the
\* document status store: the stored fields; the status store drops the
\* legacy `error` field in favour of error_msg.
ShowsRecord(entry, src) ==
    /\ entry # NoneDoc
    /\ \A f \in DOMAIN src \ {"error", "error_msg"} :
           f \in DOMAIN entry /\ entry[f] = src[f]
    /\ DOMAIN entry \subseteq DOMAIN src \cup {"error_msg"}
    /\ kind = "kv" => entry = src

\* C9: get_by_ids of the KV store and of the document status store returns
\* exactly len(ids) entries; when the backend answers, entry i is the
\* stored record of ids[i], or None when ids[i] has no record, for every
\* list of ids, repeats and all-missing lists included.
C9_GetByIdsAligned ==
    (kind \in {"kv", "doc_status"} /\ call.op = "get_by_ids") =>
        /\ Len(ret) = Len(call.ids)
        /\ ~call.fault =>
             \A i \in 1..Len(call.ids) :
                 IF Stored(call.ids[i]) = {}
                   THEN ret[i] = NoneDoc
                   ELSE ShowsRecord(ret[i], SourceOf(call.ids[i]))

\* The KV store answered a two-id list whose first id has no record.
W_C9 ==
    /\ kind = "kv"
    /\ call.op = "get_by_ids"
    /\ ~call.fault
    /\ Len(call.ids) = 2
    /\ Stored(call.ids[1]) = {}
    /\ Stored(call.ids[2]) # {}
    /\ ret[1] = NoneDoc
    /\ ret[2] # NoneDoc

\* C10: get_by_ids of the vector store returns exactly len(ids) entries
\* when the backend answers, entry i being the record of ids[i] or None
\* when ids[i] has no record.
C10_VectorGetByIdsAligned ==
    (kind = "vector" /\ call.op = "get_by_ids" /\ ~call.fault) =>
        /\ Len(ret) = Len(call.ids)
        /\ \A i \in 1..Len(call.ids) :
               IF Stored(call.ids[i]) = {}
                 THEN ret[i] = NoneDoc
                 ELSE ret[i] # NoneDoc /\ ret[i]["id"] = call.ids[i]

PagesFor(n) == (n + scan.size - 1) \div scan.size

\* C12: a full scan that meets no fault returns every stored record exactly
\* once, whatever the record count relative to the page size, reading as
\* many non-empty pages as the count needs: get_all of the KV store gives a
\* mapping over exactly the stored ids, the status store's scan a list that
\* holds each stored record once.
C12_ScanCompleteNoDuplicates ==
    (scan.pc = "done" /\ scan.fault = "none") =>
        /\ scan.pages = PagesFor(Cardinality(idx))
        /\ IF kind = "kv"
             THEN /\ DOMAIN ret = {r.id : r \in idx}
                  /\ \A r \in idx : ret[r.id] = r.source
             ELSE /\ {ret[i] : i \in DOMAIN ret} = idx
                  /\ Len(ret) = Cardinality(idx)

\* A scan of three records at page size two has finished without fault.
W_C12 ==
    /\ scan.pc = "done"
    /\ scan.fault = "none"
    /\ scan.size = 2
    /\ Cardinality(idx) = 3
    /\ scan.pages = 2

\* C13: when get_all of the KV store returns, no scroll context it opened
\* is left open, provided clear_scroll itself did not fail.
C13_CursorReleased ==
    (kind = "kv" /\ scan.pc = "done" /\ scan.fault # "clear") => scan.open = 0

\* C14: when a request of get_all of the KV store fails, get_all returns
\* the empty mapping.
C14_FaultGivesEmptyMapping ==
    (kind = "kv" /\ scan.pc = "done" /\ scan.fault \in {"search", "scroll"}) =>
        DOMAIN ret = {}

\* C15: upsert of the KV store is best-effort: whichever items the backend
\* rejects, the call returns normally, every item it did not reject is
\* stored with the fields of the call, and the records of all other ids are
\* as they were.
C15_Step ==
    (kind = "kv" /\ Ready /\ call'.op = "upsert") =>
        /\ ret' = NoneDoc
        /\ \A id \in call'.applied :
               /\ Cardinality(Stored(id)') = 1
               /\ \A f \in DOMAIN lastWrite'[id].v :
                      SourceOf(id)'[f] = lastWrite'[id].v[f]
               /\ lastWrite'[id].at = now
        /\ \A id \in Ids \ call'.applied :
               /\ Stored(id)' = Stored(id)
               /\ lastWrite'[id] = lastWrite[id]

C15_UpsertBestEffort == [][C15_Step]_vars

\* An upsert of two items returned after the backend had rejected the first
\* and stored the second.
W_C15 ==
    /\ kind = "kv"
    /\ call.op = "upsert"
    /\ call.ids = Ids
    /\ Cardinality(call.applied) = 1
    /\ \A id \in call.applied : Stored(id) # {}
    /\ \E id \in call.ids \ call.applied : Stored(id) = {}

\* C16: delete of the KV store and of the document status store returns
\* normally, removes nothing but records whose ids are listed, removes all
\* of them when the backend applies every item, and changes nothing when
\* none of the listed ids has a record (so a repeated delete has no effect).
C16_Step ==
    (kind \in {"kv", "doc_status"} /\ Ready /\ call'.op = "delete") =>
        /\ ret' = NoneDoc
        /\ \A id \in Ids \ call'.ids : Stored(id)' = Stored(id)
        /\ idx' \subseteq idx
        /\ \A id \in call'.applied : Stored(id)' = {}
        /\ call'.applied = call'.ids => idx' = {r \in idx : r.id \notin call'.ids}
        /\ (\A id \in call'.ids : Stored(id) = {}) => idx' = idx

C16_DeleteExactlyListed == [][C16_Step]_vars

\* A delete of one id has removed its record and left the other id's.
W_C16 ==
    /\ kind = "doc_status"
    /\ call.op = "delete"
    /\ Cardinality(call.ids) = 1
    /\ call.applied = call.ids
    /\ \A id \in call.ids : Stored(id) = {}
    /\ \E id \in Ids \ call.ids : Stored(id) # {}

\* C17: drop() never raises and returns a structured result: status
\* success with the number of documents it deleted, nothing of what the
\* index held at the request being left and the index itself still
\* existing, or, on a backend fault, status error with a message.
C17_Step ==
    (storageLock = DropTask /\ storageLock' = None) =>
        /\ "status" \in DOMAIN drop_result'
        /\ drop_result'.status \in {"success", "error"}
        /\ "message" \in DOMAIN drop_result'
        /\ indices' = indices
        /\ IndexName(1) \in indices'
        /\ drop_result'.status = "success" =>
             /\ drop_result'.deleted = Cardinality(drop_result.snapshot)
             /\ drop_result'.deleted = Cardinality(idx) - Cardinality(idx')
             /\ drop_result'.message[1] = drop_result'.deleted
             /\ idx' \cap drop_result.snapshot = {}
             /\ idx = drop_result.snapshot => idx' = {}
        /\ drop_result'.status = "error" => drop_result'.message # ""

C17_DropReturnsStatus == [][C17_Step]_vars

\* A drop has returned success after deleting two documents.
W_C17 ==
    /\ storageLock = None
    /\ drop_result # NoneDoc
    /\ drop_result.status = "success"
    /\ drop_result.deleted = 2
    /\ idx = {}

\* C18: between the start and the end of a drop() no upsert or delete
\* performs its backend write on the store.
C18_Step ==
    (storageLock = DropTask /\ storageLock' = DropTask) => idx' = idx

C18_DropExcludesWriters == [][C18_Step]_vars

\* C19: however the initialize() calls of stores that share an index name
\* interleave, an index that exists stays as it is (it is not created again
\* and its mappings remain those of its first creator), an index comes into
\* being with the mappings of the store that creates it, and no create
\* request is pending for an index that exists.
C19_Step ==
    /\ \A n \in IndexNames :
         /\ n \in indices => (n \in indices' /\ mappings'[n] = mappings[n])
         /\ n \notin indices => mappings[n] = "none"
         /\ n \in indices' \ indices =>
              \E t \in Tasks :
                  /\ pc[t] = "init_create"
                  /\ IndexName(store[t]) = n
                  /\ mappings'[n] = IndexType(store[t])
    /\ \A t \in Tasks :
         pc'[t] = "init_create" => IndexName(store'[t]) \notin indices'

C19_IndexCreatedOnce == [][C19_Step]_vars

\* Both stores of the shared index name are initialized; the index has the
\* mappings of store 2, which came first.
W_C19 ==
    /\ \A t \in Tasks : pc[t] = "idle"
    /\ raised = "none"
    /\ es_client[1] # None
    /\ es_client[2] # None
    /\ IndexName(1) = IndexName(2)
    /\ IndexName(1) \in indices
    /\ mappings[IndexName(1)] = IndexType(2)

\* A string without its leading and trailing blanks.
Trimmed(str) ==
    LET solid == {i \in DOMAIN str : str[i] # " "}
    IN IF solid = {} THEN <<>>
       ELSE SubSeq(str, CHOOSE i \in solid : \A j \in solid : i <= j,
                        CHOOSE i \in solid : \A j \in solid : j <= i)

\* The effective workspace of a construction: the trimmed override when it
\* is set and not blank, else the workspace argument (none: empty).
EffectiveWorkspace(c) ==
    IF c.es_workspace.set /\ Trimmed(c.es_workspace.value) # <<>>
      THEN Trimmed(c.es_workspace.value)
      ELSE IF c.workspace.set THEN c.workspace.value ELSE <<>>

\* "<effective workspace>_<namespace>", or the namespace alone.
Prefixed(c) ==
    IF EffectiveWorkspace(c) = <<>> THEN c.namespace
    ELSE EffectiveWorkspace(c) \o <<"_">> \o c.namespace

\* C20: the index name of a constructed store of any of the three classes
\* is the lowercase of "<effective workspace>_<namespace>" (the namespace
\* alone without a workspace) with every underscore turned into a hyphen:
\* a function of the override, the workspace argument and the namespace
\* only.
C20_IndexNameDeterministic ==
    (call.op = "__post_init__" /\ ret # RaisedDoc) =>
        /\ Len(ret.index_name) = Len(Prefixed(call))
        /\ \A i \in 1..Len(ret.index_name) :
               ret.index_name[i] =
                   IF Prefixed(call)[i] = "_" THEN "-"
                   ELSE LowerChar(Prefixed(call)[i])

\* A vector store was built with a padded upper-case override and a
\* workspace argument: the override names the index.
W_C20 ==
    /\ kind = "vector"
    /\ call.op = "__post_init__"
    /\ call.es_workspace = [set |-> TRUE, value |-> <<" ", "B">>]
    /\ call.workspace = [set |-> TRUE, value |-> <<"a">>]
    /\ call.namespace = <<"N", "_", "s">>
    /\ ret # RaisedDoc
    /\ ret.index_name = <<"b", "-", "n", "-", "s">>

\* C22: a status record written with a legacy "error" field is read back
\* without an "error" field, and with error_msg equal to the error_msg it
\* was written with when that is not empty, else to the legacy value.
C22_LegacyErrorMigrated ==
    (kind = "doc_status" /\ call.op = "get_by_id" /\ ~call.fault
       /\ lastWrite[call.id] # NoneDoc) =>
        LET v == lastWrite[call.id].v
        IN Has(v, "error") =>
             /\ ret # NoneDoc
             /\ ~Has(ret, "error")
             /\ ret["error_msg"] =
                    IF Has(v, "error_msg") /\ v["error_msg"] \notin {"", PyNone}
                      THEN v["error_msg"]
                      ELSE v["error"]

\* A record written with only the legacy field was read back with its
\* value under error_msg.
W_C22 ==
    /\ kind = "doc_status"
    /\ call.op = "get_by_id"
    /\ ~call.fault
    /\ lastWrite[call.id] # NoneDoc
    /\ Has(lastWrite[call.id].v, "error")
    /\ ~Has(lastWrite[call.id].v, "error_msg")
    /\ ret # NoneDoc
    /\ ret["error_msg"] = "boom"

\* C23: every document of the status store's index has only fields of the
\* DocProcessingStatus schema.
C23_OnlySchemaFieldsStored ==
    kind = "doc_status" => \A r \in idx : DOMAIN r.source \subseteq StatusSchema

\* C30: get_by_id of the KV store never lets a backend fault through: it
\* returns None when the request fails, as it does for an id with no record.
C30_GetByIdNeverRaises ==
    (kind = "kv" /\ call.op = "get_by_id") =>
        /\ ret # RaisedDoc
        /\ (call.fault \/ Stored(call.id) = {}) => ret = NoneDoc

\* The statuses the counts are kept for.
CountedStatuses == {"pending", "processing", "processed", "failed"}

\* C24: get_all_status_counts returns one entry for each of the four
\* statuses and the entry "all", nothing else; an entry is zero when no
\* document has the status or the backend call fails, and the number of
\* documents with the status otherwise; "all" is the sum of the four.
C24_StatusCountsZeroFilled ==
    (kind = "doc_status" /\ call.op = "get_all_status_counts") =>
        /\ DOMAIN ret = CountedStatuses \cup {"all"}
        /\ \A k \in CountedStatuses :
               ret[k] = IF call.fault THEN 0 ELSE StatusCount(k)
        /\ ret["all"] = ret["pending"] + ret["processing"] + ret["processed"]
                          + ret["failed"]

\* Counts were returned for an index with a pending and a failed document.
W_C24 ==
    /\ kind = "doc_status"
    /\ call.op = "get_all_status_counts"
    /\ ~call.fault
    /\ ret["pending"] = 1
    /\ ret["failed"] = 1
    /\ ret["processing"] = 0
    /\ ret["all"] = 2

\* C25: whatever status values the stored documents carry, the per-status
\* counts of an answered get_all_status_counts sum to the number of
\* documents in the index, and "all" is that number.
C25_CountsSumToTotal ==
    (kind = "doc_status" /\ call.op = "get_all_status_counts" /\ ~call.fault) =>
        /\ ret["all"] = Cardinality(idx)
        /\ SumValues(ret, DOMAIN ret \ {"all"}) = Cardinality(idx)

\* C21: two stores of the same class built with different (workspace,
\* namespace) pairs have different index names.
C21_OneIndexPerTenant ==
    (call.op = "construct_two" /\ call.first # call.second) =>
        ret[1].index_name # ret[2].index_name

\* C28: an upsert of the vector store over n records with batch size b
\* runs ceil(n/b) embedding computations, none over more than b contents,
\* and every id it stores carries the embedding of that id's own content,
\* in whatever order the computations finish.
C28_EmbeddingsFollowInput ==
    (kind = "vector" /\ call.op = "upsert" /\ call.embedded) =>
        /\ Len(call.batch_lens) = (call.records + call.size - 1) \div call.size
        /\ \A b \in DOMAIN call.batch_lens : call.batch_lens[b] <= call.size
        /\ \A id \in call.applied :
               /\ Stored(id) # {}
               /\ SourceOf(id)["embedding"] = Embedding(lastWrite[id].v["content"])
               /\ SourceOf(id)["content"] = lastWrite[id].v["content"]

\* Two records with different contents were embedded one per batch, the
\* second batch finishing first, and both were stored.
W_C28 ==
    /\ kind = "vector"
    /\ call.op = "upsert"
    /\ call.embedded
    /\ call.records = 2
    /\ call.size = 1
    /\ ~call.in_order
    /\ call.applied = Ids
    /\ \E id1, id2 \in Ids : SourceOf(id1)["content"] # SourceOf(id2)["content"]

\* The records of the index whose content is the text of the query.
Verbatim == {r \in idx : r.source["content"] = call.query}

\* Exactly one record holds the text of the query and no other record
\* shares a term with it.
OneVerbatimOthersUnrelated ==
    /\ Cardinality(Verbatim) = 1
    /\ \A r \in idx \ Verbatim :
           Terms(r.source["content"]) \cap Terms(call.query) = {}

\* The fused score of the record with this id: 1/(rank + 60) summed over
\* the two result lists cut at the window.
FusedScore(id, window) ==
    LET Share(list) ==
            IF \E i \in 1..Min(window, Len(list)) : list[i] = id
            THEN [num |-> 1,
                  den |-> 60 + (CHOOSE i \in DOMAIN list : list[i] = id)]
            ELSE [num |-> 0, den |-> 1]
        a == Share(call.knn)
        b == Share(call.matched)
    IN [num |-> a.num * b.den + b.num * a.den, den |-> a.den * b.den]

\* C29: when exactly one record's content is the query text and the other
\* records are unrelated, query(text, top_k) with top_k >= 1 returns that
\* record first; every result carries the sum over the vector and lexical
\* lists (window 2*top_k) of 1/(rank + 60) and the results are in descending
\* order of that sum.
C29_VerbatimRanksFirst ==
    (/\ kind = "vector"
     /\ call.op = "query"
     /\ ~call.given
     /\ ~call.fault
     /\ call.top_k >= 1
     /\ OneVerbatimOthersUnrelated) =>
        /\ Len(ret) \in 1..call.top_k
        /\ \A r \in Verbatim : ret[1]["id"] = r.id
        /\ \A i \in DOMAIN ret :
               LET f == FusedScore(ret[i]["id"], 2 * call.top_k)
               IN ret[i]["score"].num * f.den = f.num * ret[i]["score"].den
        /\ \A i, j \in DOMAIN ret :
               i < j => ret[i]["score"].num * ret[j]["score"].den
                            >= ret[j]["score"].num * ret[i]["score"].den

\* A query over a corpus of one verbatim record and unrelated others came
\* back with more than one result, the verbatim record not being the first
\* of the order in which the backend lists unrelated vectors.
W_C29 ==
    /\ kind = "vector"
    /\ call.op = "query"
    /\ ~call.given
    /\ ~call.fault
    /\ OneVerbatimOthersUnrelated
    /\ Cardinality(idx) >= 2
    /\ Len(ret) >= 2
    /\ call.matched # <<>>

\* The stored documents the filter of the call selects.
Matching ==
    {r \in idx : \/ call.status_filter = PyNone
                 \/ /\ "status" \in DOMAIN r.source
                    /\ r.source["status"] =
                           (CASE call.status_filter = "DocStatus.PENDING" -> "pending"
                              [] call.status_filter = "DocStatus.PROCESSING" -> "processing"
                              [] call.status_filter = "DocStatus.PROCESSED" -> "processed"
                              [] OTHER -> "failed")}

\* The sort key of a stored document for a sort field, as a number: a
\* missing, None or empty key is 0, the lowest.
KeyRank(r, field) ==
    LET key == IF field = "id" THEN r.id
               ELSE IF field \in DOMAIN r.source THEN r.source[field] ELSE ""
    IN IF key \in {"", PyNone} THEN 0
       ELSE CHOOSE i \in DOMAIN SortStrings : SortStrings[i] = key

\* The stored document with an id.
DocOf(id) == CHOOSE r \in idx : r.id = id

\* A list of ids is in the order of the sort key, in the direction asked.
InKeyOrder(ids, field, descending) ==
    LET ranks == [i \in DOMAIN ids |-> KeyRank(DocOf(ids[i]), field)]
    IN \A i, j \in DOMAIN ids :
           i < j => IF descending THEN ranks[i] >= ranks[j]
                    ELSE ranks[i] <= ranks[j]

\* C26: with the index unchanged and filter, page_size, sort field and
\* direction fixed, the pages 1..N put one after the other hold exactly the
\* stored documents that match the filter, each once, in the order of the
\* sort key in the direction asked, and the total returned with every page
\* is the number of those documents.
C26_PagesRebuildMatchingSet ==
    (kind = "doc_status" /\ call.op = "get_docs_paginated" /\ call.fault = "none") =>
        LET size == call.locals.page_size
            N == (Cardinality(Matching) + size - 1) \div size
            PageAt(p) == GetDocsPaginated(call.status_filter, p, call.page_size,
                                          call.sort_field, call.sort_direction,
                                          call.order, "none", now)
            pages == Concatenate([p \in 1..N |-> PageAt(p).paginated])
            ids == [i \in DOMAIN pages |-> pages[i].id]
        IN /\ ret[2] = Cardinality(Matching)
           /\ \A p \in 1..N : PageAt(p).total_count = Cardinality(Matching)
           /\ Len(ids) = Cardinality(Matching)
           /\ {ids[i] : i \in DOMAIN ids} = {r.id : r \in Matching}
           /\ InKeyOrder(ids, call.locals.sort_field, call.locals.reverse_sort)

\* C27: get_docs_paginated works with page max(1, page), page_size
\* min(200, max(10, page_size)) and the sort field updated_at unless the
\* field asked for is created_at, updated_at or id; what it returns is the
\* part [(page-1)*page_size, page*page_size) of the sorted documents, never
\* more than page_size of them.
C27_EffectivePageAndSlice ==
    (kind = "doc_status" /\ call.op = "get_docs_paginated") =>
        LET page == IF call.page < 1 THEN 1 ELSE call.page
            page_size == IF call.page_size < 10 THEN 10
                         ELSE IF call.page_size > 200 THEN 200
                         ELSE call.page_size
            sort_field == IF call.sort_field \in {"created_at", "updated_at", "id"}
                          THEN call.sort_field ELSE "updated_at"
            sorted == call.locals.docs_with_sort
            lo == (page - 1) * page_size
            hi == page * page_size
            part == {i \in DOMAIN sorted : lo < i /\ i <= hi}
        IN /\ call.locals.page = page
           /\ call.locals.page_size = page_size
           /\ call.locals.sort_field = sort_field
           /\ InKeyOrder(sorted, sort_field, call.locals.reverse_sort)
           /\ Len(ret[1]) = Cardinality(part)
           /\ Len(ret[1]) <= page_size
           /\ \A k \in DOMAIN ret[1] : ret[1][k].id = sorted[lo + k]
           /\ ret[2] = Len(sorted)

\* The second page of three was asked for with page_size 5 and a sort field
\* that is not known: ten documents came back.
W_C27 ==
    /\ kind = "doc_status"
    /\ call.op = "get_docs_paginated"
    /\ call.page = 2
    /\ call.page_size = 5
    /\ call.sort_field = "file_path"
    /\ call.locals.reverse_sort
    /\ ret[2] > 20
    /\ Len(ret[1]) = 10

\* C40: release_client(handle) with a handle that is not the cached
\* connection (None, or the handle of a connection closed earlier) changes
\* nothing in the manager: count and cache stay, nothing is closed, the
\* mutex is free again and the call has returned.
C40_Step ==
    \A t \in Tasks :
        (/\ pc[t] = "release_client"
         /\ pc'[t] # pc[t]
         /\ (arg[t] = None \/ arg[t] # instance)) =>
            /\ ref_count' = ref_count
            /\ instance' = instance
            /\ closeCount' = closeCount
            /\ constructed' = constructed
            /\ lock' = None
            /\ pc'[t] = "idle"

C40_StaleReleaseChangesNothing == [][C40_Step]_vars

\* The handle of a closed connection is about to be released while a newer
\* connection is cached and counted, and the mutex is free.
W_C40 ==
    \E t \in Tasks :
        /\ pc[t] = "release_client"
        /\ lock = None
        /\ arg[t] # None
        /\ closeCount[arg[t]] = 1
        /\ instance # None
        /\ instance # arg[t]
        /\ ref_count = 1

\* The store instances that hold a connection handle.
Holders == {s \in Stores : es_client[s] # None}

CallSteps ==
    \E t \in Tasks :
        \/ init_get_client(t)
        \/ init_exists(t)
        \/ init_create(t)
        \/ fin_release(t)
        \/ fin_close(t)
        \/ fin_close_raises(t)
        \/ \E fault \in BOOLEAN : drop_delete_by_query(t, fault)

\* C39: initialize(), finalize() and drop() do not deadlock.  The holder of
\* the manager's mutex waits for nothing but the backend's answer to
\* close(); the holder of the init lock is inside initialize() and the
\* holder of the storage lock inside finalize() or drop(); whenever calls
\* are under way one of them can take its next step; and when none is under
\* way every lock is free, whether the calls returned or failed.
C39_NoDeadlock ==
    /\ lock # None => pc[lock] = "fin_close"
    /\ initLock # None =>
           pc[initLock] \in {"init_get_client", "init_exists", "init_create"}
    /\ storageLock # None =>
           pc[storageLock] \in {"fin_release", "fin_close", "drop_delete_by_query"}
    /\ \A t \in Tasks :
           /\ pc[t] \in {"init_get_client", "init_exists", "init_create"}
                  => initLock = t
           /\ pc[t] \in {"fin_release", "fin_close", "drop_delete_by_query"}
                  => storageLock = t
    /\ (Busy /\ (instance # None \/ constructed < MaxConn)) => ENABLED CallSteps
    /\ ~Busy => (lock = None /\ initLock = None /\ storageLock = None)

\* A close() failed under the mutex and the storage lock; the finalize()
\* has left, every lock is free and another call is under way.
W_C39 ==
    /\ raised = "BackendError"
    /\ instance # None
    /\ ref_count = 0
    /\ lock = None
    /\ storageLock = None
    /\ \E s \in Stores : es_client[s] = instance
    /\ \E t \in Tasks : pc[t] = "init_exists"

\* C37: a full scan (get_all of the KV store; _scroll_hits, which the
\* listings and get_docs_paginated of the status store use) over a finite
\* index ends when the backend answers every request: it never reads more
\* non-empty pages, each followed by one cursor advance, than the index has
\* records, and it returns.
C37_ScanTerminates ==
    /\ [](scan.pages <= Cardinality(idx))
    /\ <>(scan.pc = "done")

\* A scan of three records has returned after two cursor advances, the
\* second of which failed.
W_C37 ==
    /\ scan.pc = "done"
    /\ scan.fault = "scroll"
    /\ scan.pages = 2
    /\ Cardinality(idx) = 3

\* C36: when delete_entity(name) returns without a backend fault, the
\* vector index holds no record whose entity_name is name, and the records
\* with another entity_name, or with none, are as they were.
C36_Step ==
    (kind = "vector" /\ Ready /\ call'.op = "delete_entity" /\ ~call'.fault) =>
        idx' = {r \in idx : ~("entity_name" \in DOMAIN r.source
                              /\ r.source["entity_name"] = call'.entity_name)}

C36_DeleteEntityRemovesAll == [][C36_Step]_vars

\* C34: upsert of the status store and of the vector store is best-effort:
\* when the backend rejects one item of the bulk write, the call returns
\* without raising and every other item of the call is stored.
C34_UpsertBestEffortElsewhere ==
    (/\ kind \in {"doc_status", "vector"}
     /\ call.op = "upsert"
     /\ "rejected" \in DOMAIN call
     /\ Cardinality(call.rejected) = 1) =>
        /\ ret = NoneDoc
        /\ \A k \in call.keys \ call.rejected : Stored(k) # {}

\* C33: filter_keys of the status store returns the keys that should be
\* processed: every input key that is not in storage or whose stored
\* document was not successfully processed, and no key whose stored document
\* was successfully processed.
C33_FilterKeysToProcess ==
    (kind = "doc_status" /\ call.op = "filter_keys" /\ ~call.fault) =>
        ret.keys = {k \in call.keys :
                       \/ Stored(k) = {}
                       \/ SourceOf(k)["status"] # "processed"}

\* C35: the lexical branch is down-weighted in the fused ranking: a hit that
\* is at rank r of the vector list and not in the lexical list has a
\* strictly higher fused score than a hit that is at the same rank r of the
\* lexical list and not in the vector list.
C35_LexicalDownWeighted ==
    (kind = "vector" /\ call.op = "query" /\ ~call.fault) =>
        \A i, j \in DOMAIN ret :
            (/\ RankIn(call.knn, ret[i]["id"]) > 0
             /\ RankIn(call.matched, ret[i]["id"]) = 0
             /\ RankIn(call.knn, ret[j]["id"]) = 0
             /\ RankIn(call.matched, ret[j]["id"])
                    = RankIn(call.knn, ret[i]["id"]))
                => ScoreAbove(ret[i]["score"], ret[j]["score"])

C31_Step ==
    (/\ Ready
     /\ call'.op \in {"get_by_ids", "filter_keys", "query", "get_vectors_by_ids",
                      "get_doc_by_file_path"}
     /\ call'.fault
     /\ call'.op = "query" => ~call'.embed_fault) =>
        /\ idx' = idx
        /\ CASE call'.op = "get_by_ids" ->
                    ret' = [i \in 1..Len(call'.ids) |-> NoneDoc]
             [] call'.op = "filter_keys" -> ret' = [keys |-> call'.keys]
             [] call'.op = "query" -> ret' = <<>>
             [] call'.op = "get_vectors_by_ids" -> ret' = [vectors |-> <<>>]
             [] OTHER -> ret' = NoneDoc

====
